---- MODULE Spec2Model ----
(***************************************************************************)
(* Model of the session streaming relay (app/routers/chat.py), of the      *)
(* event generator it consumes (app/services/workflow.py) and of the       *)
(* warehouse-backed store (app/storage/databricks.py).                     *)
(*                                                                         *)
(* A Python str value (question, narrative content, token, title, id) is   *)
(* a sequence of symbols; the symbols of a text the code splits or strips  *)
(* are its characters.  Frame types and program positions are TLA+         *)
(* strings.  A Python dict is a function whose DOMAIN is the set of keys   *)
(* present.  None is a reserved text.                                      *)
(***************************************************************************)
EXTENDS Integers, Sequences, FiniteSets, TLC

\* ------------------------------------------------------------------------
\* Bounds of the model
\* ------------------------------------------------------------------------
MaxLen == 4
\* inbound frames handled over both connections together
MaxFrames == 2
\* inbound frames handled in the single-connection model
MaxTurnFrames == 1
\* node-completion events the external workflow produces in one turn
MaxNodes == 1
\* attempts of store statements that fail in a run of the relay
MaxFaults == 1
\* largest timeout, in seconds, _execute_sql is called with
MaxTimeout == 5
\* calls of ConnectionManager.send_json in one run
MaxSends == 1

\* ------------------------------------------------------------------------
\* Text helpers
\* ------------------------------------------------------------------------
\* characters str.split() and str.strip() treat as whitespace (str.isspace):
\* space, \t, \n, \r, \f, then U+000B, U+001C..U+001F, U+0085, U+00A0 and
\* U+1680 written as the characters themselves; the whitespace of U+2000 and
\* above (U+2000..U+200A, U+2028, U+2029, U+202F, U+205F, U+3000) cannot be
\* written in a string of this language and no text of the model holds it
Whitespace ==
    {" ", "\t", "\n", "\r", "\f",
     "", "", "", "", "", "", " ", " "}

\* alphabet the narrative contents are drawn from
Alphabet == {"a", "b", " ", "\n", "\r"}

RECURSIVE TextsOfLen(_)
TextsOfLen(n) ==
    IF n = 0 THEN {<<>>}
    ELSE {Append(t, ch) : t \in TextsOfLen(n - 1), ch \in Alphabet}

Texts == UNION {TextsOfLen(n) : n \in 0..MaxLen}

\* index one past the end of the word that starts at i
RECURSIVE WordEnd(_, _)
WordEnd(s, i) ==
    IF i > Len(s) \/ s[i] \in Whitespace THEN i ELSE WordEnd(s, i + 1)

\* str.split() without arguments: the maximal runs of non-whitespace
RECURSIVE SplitFrom(_, _)
SplitFrom(s, i) ==
    IF i > Len(s) THEN <<>>
    ELSE IF s[i] \in Whitespace THEN SplitFrom(s, i + 1)
    ELSE LET j == WordEnd(s, i)
         IN  <<SubSeq(s, i, j - 1)>> \o SplitFrom(s, j)

Split(s) == SplitFrom(s, 1)

\* the token sent for one word: word + " "
Token(word) == word \o <<" ">>

StreamFrame(token, done) == [type |-> "stream", token |-> token, done |-> done]

RECURSIVE Concat(_)
Concat(seqs) ==
    IF seqs = <<>> THEN <<>> ELSE Head(seqs) \o Concat(Tail(seqs))

\* the token fields of the stream frames with done = FALSE, in order
RECURSIVE StreamTokens(_)
StreamTokens(frames) ==
    IF frames = <<>> THEN <<>>
    ELSE IF Head(frames).type = "stream" /\ ~Head(frames).done
         THEN <<Head(frames).token>> \o StreamTokens(Tail(frames))
         ELSE StreamTokens(Tail(frames))

\* ------------------------------------------------------------------------
\* Python dict and Optional helpers
\* ------------------------------------------------------------------------
EmptyDict == <<>>

Get(d, k, default) == IF k \in DOMAIN d THEN d[k] ELSE default

Put(d, k, v) == [x \in DOMAIN d \cup {k} |-> IF x = k THEN v ELSE d[x]]

Pop(d, k) == [x \in DOMAIN d \ {k} |-> d[x]]

\* {**d1, **d2}
Merge(d1, d2) ==
    [x \in DOMAIN d1 \cup DOMAIN d2 |-> IF x \in DOMAIN d2 THEN d2[x] ELSE d1[x]]

\* Python truthiness of d.get(k) for a text value
Truthy(d, k) == k \in DOMAIN d /\ d[k] # <<>>

None == <<"None">>

\* ------------------------------------------------------------------------
\* A dict that is iterated while it changes (manager.active_connections):
\* CPython keeps the entries in the order the keys were put in, a removed
\* key leaves its slot behind empty, and the empty slots go when a new key
\* finds no room left
\* ------------------------------------------------------------------------
\* {}: no slot, and no room before the first key allocates the table
NewDict == [slots |-> <<>>, usable |-> 0]

\* the slot of a removed key
Tombstone == [key |-> None, value |-> "none"]

DictKeys(d) ==
    {d.slots[i].key : i \in {j \in 1..Len(d.slots) : d.slots[j] # Tombstone}}

\* d[k] for a key the dict holds
DictValue(d, k) ==
    d.slots[CHOOSE i \in 1..Len(d.slots) : d.slots[i].key = k].value

\* size of the table a dict of `used` keys gets when it is resized: 8
\* slots for an empty one, else the power of two from 16 on that holds
\* three times the keys
RECURSIVE KeysSize(_, _)
KeysSize(used, size) ==
    IF used = 0 THEN 8
    ELSE IF size >= 3 * used THEN size ELSE KeysSize(used, 2 * size)

\* d[k] = v: the value of a key the dict holds is replaced in its slot; a
\* new key goes into a new slot at the end, after the empty slots have
\* been dropped if there was no room (two thirds of the table are usable)
DictSet(d, k, v) ==
    IF k \in DictKeys(d)
    THEN [d EXCEPT !.slots[CHOOSE i \in 1..Len(d.slots) : d.slots[i].key = k].value = v]
    ELSE LET live == SelectSeq(d.slots, LAMBDA e : e # Tombstone)
             room == IF d.usable > 0 THEN d
                     ELSE [slots  |-> live,
                           usable |-> (2 * KeysSize(Len(live), 16)) \div 3 - Len(live)]
         IN  [slots  |-> Append(room.slots, [key |-> k, value |-> v]),
              usable |-> room.usable - 1]

\* d.pop(k, None)
DictPop(d, k) ==
    IF k \in DictKeys(d)
    THEN [d EXCEPT !.slots[CHOOSE i \in 1..Len(d.slots) : d.slots[i].key = k] = Tombstone]
    ELSE d

\* ------------------------------------------------------------------------
\* Universe of the relay model
\* ------------------------------------------------------------------------
Conns == {"c1", "c2"}

SessionIds == {<<"s1">>, <<"s2">>}

\* values str(uuid.uuid4()) returns, in the order it returns them
UuidSeq == << <<"g1">> >>

\* raw question texts of inbound message frames
RawQuestions == {<<" ", "\r">>, <<"q">>, <<"\r", "r", "'">>}

\* str.strip()
RECURSIVE LStrip(_)
LStrip(s) ==
    IF s # <<>> /\ Head(s) \in Whitespace THEN LStrip(Tail(s)) ELSE s

RECURSIVE RStrip(_)
RStrip(s) ==
    IF s # <<>> /\ s[Len(s)] \in Whitespace
    THEN RStrip(SubSeq(s, 1, Len(s) - 1)) ELSE s

\* a handler that takes the question as it comes
StripNothing(s) == s

Strip(s) == RStrip(LStrip(s))

\* question[:100]
TitleLen == 100

Prefix(s, n) == SubSeq(s, 1, IF Len(s) < n THEN Len(s) ELSE n)

\* text.replace("'", "''")
RECURSIVE SqlEscape(_)
SqlEscape(s) ==
    IF s = <<>> THEN <<>>
    ELSE IF Len(s) = 1 THEN (IF s[1] = "'" THEN <<"'", "'">> ELSE s)
    ELSE LET m == Len(s) \div 2
         IN  SqlEscape(SubSeq(s, 1, m)) \o SqlEscape(SubSeq(s, m + 1, Len(s)))

\* the value of the SQL string literal '<s>': a doubled quote is one quote
\* (a text may be cut after any character that is not a quote)
RECURSIVE SqlLiteralValue(_)
SqlLiteralValue(s) ==
    IF s = <<>> THEN <<>>
    ELSE IF Len(s) >= 2 /\ s[Len(s) \div 2] # "'"
         THEN SqlLiteralValue(SubSeq(s, 1, Len(s) \div 2))
              \o SqlLiteralValue(SubSeq(s, Len(s) \div 2 + 1, Len(s)))
    ELSE IF Len(s) >= 2 /\ s[1] = "'" /\ s[2] = "'"
         THEN <<"'">> \o SqlLiteralValue(SubSeq(s, 3, Len(s)))
    ELSE <<Head(s)>> \o SqlLiteralValue(Tail(s))

\* ------------------------------------------------------------------------
\* WorkflowService (app/services/workflow.py)
\* ------------------------------------------------------------------------
\* final-state fields the relay inspects on workflow_end, in priority order
SpecialFields == <<"greeting_response", "domain_followup_question",
                   "dataset_followup_question", "sql_followup_question">>

SpecialKeys == {SpecialFields[i] : i \in 1..Len(SpecialFields)}

\* the text the external workflow puts in a special field
SpecialText(k) ==
    CASE k = "greeting_response"         -> <<"h", " ", " ", "i">>
      [] k = "domain_followup_question"  -> <<"d", "?">>
      [] k = "dataset_followup_question" -> <<"t", "?">>
      [] k = "sql_followup_question"     -> <<"s", "?">>

\* sets of special fields the final state of a turn may carry
SpecialChoices == {S \in SUBSET SpecialKeys : Cardinality(S) <= 2}

\* node_end events of the external workflow: node name and node data; the
\* second node is one the table of status messages does not list
NodeEnds ==
    { [name |-> "narrative_agent",
       data |-> [narrative_response |-> <<"a", " ", "b">>]],
      [name |-> "sql_executor",
       data |-> [sql_result |-> <<"row">>, chart_spec |-> <<"bar">>]],
      [name |-> "router_agent",
       data |-> [requires_domain_clarification |-> <<"1">>]] }

\* _build_initial_state
BuildInitialState(question, session_id, user_id, user_email, existing_state) ==
    LET s1 == Merge(existing_state,
                    [user_question    |-> question,
                     current_question |-> question,
                     session_id       |-> session_id,
                     user_id          |-> user_id,
                     user_email       |-> user_email,
                     timestamp        |-> <<"now">>])
        s2 == IF "user_question_history" \in DOMAIN s1 THEN s1
              ELSE Put(s1, "user_question_history", <<>>)
    IN  IF "errors" \in DOMAIN s2 THEN s2 ELSE Put(s2, "errors", <<>>)

\* include_fields of _sanitize_state_for_response
IncludeFields ==
    {"session_id", "user_id", "current_question", "user_question",
     "question_type", "rewritten_question", "next_agent",
     "domain_selection", "selected_dataset", "functional_names",
     "greeting_response", "narrative_response", "followup_questions",
     "chart_spec", "report_found", "report_url", "report_name",
     "requires_domain_clarification", "domain_followup_question",
     "requires_dataset_clarification", "dataset_followup_question",
     "needs_followup", "sql_followup_question",
     "errors", "nav_error_msg", "user_friendly_message"}

\* _sanitize_state_for_response: included keys whose value is not None
SanitizeState(state) ==
    [k \in {x \in DOMAIN state : x \in IncludeFields /\ state[x] # None}
        |-> state[k]]

\* the state the external workflow ends with: the initial state it was given,
\* with the special fields of this turn's outcome and no others
ExternalFinalState(initial_state, specials) ==
    [k \in (DOMAIN initial_state \ SpecialKeys) \cup specials |->
        IF k \in specials THEN SpecialText(k) ELSE initial_state[k]]

\* _get_node_status_message
NodeStatusMessage(node_name, node_data) ==
    IF Truthy(node_data, "requires_domain_clarification")
    THEN "Need clarification on which area to analyze..."
    ELSE IF Truthy(node_data, "requires_dataset_clarification")
    THEN "Need clarification on which dataset to use..."
    ELSE IF Truthy(node_data, "greeting_response")
    THEN "Responding to greeting..."
    ELSE CASE node_name = "entry_router" -> "Analyzing your question..."
           [] node_name = "navigation_controller" -> "Understanding intent and context..."
           [] node_name = "router_agent" -> "Selecting relevant data sources..."
           [] node_name = "strategy_planner_agent" -> "Planning analysis strategy..."
           [] node_name = "drillthrough_planner_agent" -> "Performing detailed analysis..."
           [] node_name = "narrative_agent" -> "Generating response..."
           [] node_name = "followup_question_agent" -> "Suggesting follow-up questions..."
           [] OTHER -> "Processing " \o node_name \o "..."

\* run_workflow, body of the `node_end` branch: the events yielded for one
\* node_end event of the external workflow, in order
NodeEndYields(ne) ==
    <<[type |-> "node_complete", node |-> ne.name,
       status |-> NodeStatusMessage(ne.name, ne.data)]>>
    \o (IF ne.name = "narrative_agent" /\ Truthy(ne.data, "narrative_response")
        THEN <<[type |-> "narrative", content |-> ne.data["narrative_response"]]>>
        ELSE <<>>)
    \o (IF Truthy(ne.data, "sql_result")
        THEN <<[type |-> "sql_result", data |-> ne.data["sql_result"]]>>
        ELSE <<>>)
    \o (IF Truthy(ne.data, "chart_spec")
        THEN <<[type |-> "chart", spec |-> ne.data["chart_spec"]]>>
        ELSE <<>>)

\* position of the run_workflow generator when it is created; it goes from
\* "start" to "events" and ends at "end" (after workflow_end) or at "failed"
\* (after an error event)
WfNew == [pos |-> "start", pending |-> <<>>, nodes |-> 0]

\* what the generator can do when asked for its next event: yield an event
\* it still owes for the last node_end, start, or take the next event of the
\* external workflow (a node_end, the workflow_end, or a raised failure)
WfInputs(w) ==
    IF w.pending # <<>> THEN {[k |-> "pending"]}
    ELSE IF w.pos = "start" THEN {[k |-> "begin"]}
    ELSE IF w.pos = "events"
    THEN {[k |-> "node_end", ne |-> ne] : ne \in {x \in NodeEnds : w.nodes < MaxNodes}}
         \cup {[k |-> "workflow_end", specials |-> S] : S \in SpecialChoices}
         \cup {[k |-> "raise"]}
    ELSE {}

\* the asynchronous iteration is over (StopAsyncIteration): the generator
\* returned, or the external workflow has no further event
WfExhausted(w) == w.pending = <<>> /\ w.pos \in {"events", "end", "failed"}

\* the event run_workflow yields for input i
WfYield(w, i, initialized, initial_state) ==
    CASE i.k = "pending" -> Head(w.pending)
      [] i.k = "begin" ->
            IF initialized THEN [type |-> "workflow_start"]
            ELSE [type |-> "error",
                  error |-> "Workflow not initialized. Check server logs."]
      [] i.k = "node_end" -> Head(NodeEndYields(i.ne))
      [] i.k = "workflow_end" ->
            [type |-> "workflow_end",
             state |-> SanitizeState(ExternalFinalState(initial_state, i.specials))]
      [] i.k = "raise" -> [type |-> "error", error |-> "workflow failed"]

\* the generator's position after it yielded for input i
WfAfter(w, i, initialized) ==
    CASE i.k = "pending" -> [w EXCEPT !.pending = Tail(w.pending)]
      [] i.k = "begin" ->
            [w EXCEPT !.pos = IF initialized THEN "events" ELSE "failed"]
      [] i.k = "node_end" ->
            [w EXCEPT !.pending = Tail(NodeEndYields(i.ne)), !.nodes = w.nodes + 1]
      [] i.k = "workflow_end" -> [w EXCEPT !.pos = "end"]
      [] i.k = "raise" -> [w EXCEPT !.pos = "failed"]

\* ------------------------------------------------------------------------
\* Translation of workflow events to outbound frames
\* (stream_response_workflow, app/routers/chat.py)
\* ------------------------------------------------------------------------
\* for word in text.split(): send a stream frame with token word + " "
RECURSIVE WordFrames(_)
WordFrames(words) ==
    IF words = <<>> THEN <<>>
    ELSE <<StreamFrame(Token(Head(words)), FALSE)>> \o WordFrames(Tail(words))

TokenFrames(text) == WordFrames(Split(text))

ClarificationFrame(kind, message) ==
    [type |-> "clarification", clarification_type |-> kind, message |-> message]

\* a relay that acts on every special field the final state carries
WorkflowEndFramesEveryField(final_state) ==
    (IF Truthy(final_state, "greeting_response")
     THEN TokenFrames(final_state["greeting_response"]) ELSE <<>>)
    \o (IF Truthy(final_state, "domain_followup_question")
        THEN <<ClarificationFrame("domain", final_state["domain_followup_question"])>>
        ELSE <<>>)
    \o (IF Truthy(final_state, "dataset_followup_question")
        THEN <<ClarificationFrame("dataset", final_state["dataset_followup_question"])>>
        ELSE <<>>)
    \o (IF Truthy(final_state, "sql_followup_question")
        THEN <<ClarificationFrame("sql", final_state["sql_followup_question"])>>
        ELSE <<>>)

\* frames sent on workflow_end: the first special field present decides
WorkflowEndFrames(final_state) ==
    IF Truthy(final_state, "greeting_response")
    THEN TokenFrames(final_state["greeting_response"])
    ELSE IF Truthy(final_state, "domain_followup_question")
    THEN <<ClarificationFrame("domain", final_state["domain_followup_question"])>>
    ELSE IF Truthy(final_state, "dataset_followup_question")
    THEN <<ClarificationFrame("dataset", final_state["dataset_followup_question"])>>
    ELSE IF Truthy(final_state, "sql_followup_question")
    THEN <<ClarificationFrame("sql", final_state["sql_followup_question"])>>
    ELSE <<>>

\* a relay that takes the response text from a greeting only
WorkflowEndResponseGreetingOnly(final_state, full_response) ==
    IF Truthy(final_state, "greeting_response")
    THEN final_state["greeting_response"]
    ELSE full_response

\* full_response after workflow_end
WorkflowEndResponse(final_state, full_response) ==
    IF Truthy(final_state, "greeting_response")
    THEN final_state["greeting_response"]
    ELSE IF Truthy(final_state, "domain_followup_question")
    THEN final_state["domain_followup_question"]
    ELSE IF Truthy(final_state, "dataset_followup_question")
    THEN final_state["dataset_followup_question"]
    ELSE IF Truthy(final_state, "sql_followup_question")
    THEN final_state["sql_followup_question"]
    ELSE full_response

\* the frames one iteration of the `async for event` loop sends
RelayFrames(ev) ==
    CASE ev.type = "workflow_start" ->
            <<[type |-> "status", status |-> "started",
               message |-> "Workflow started..."]>>
      [] ev.type = "node_complete" ->
            <<[type |-> "status", status |-> "processing",
               message |-> ev.status, node |-> ev.node]>>
      [] ev.type = "narrative" ->
            IF ev.content # <<>> THEN TokenFrames(ev.content) ELSE <<>>
      [] ev.type = "sql_result" ->
            <<[type |-> "data", data_type |-> "sql_result", data |-> ev.data]>>
      [] ev.type = "chart" ->
            <<[type |-> "data", data_type |-> "chart", spec |-> ev.spec]>>
      [] ev.type = "followup_questions" ->
            <<[type |-> "data", data_type |-> "followup_questions",
               questions |-> ev.questions]>>
      [] ev.type = "workflow_end" -> WorkflowEndFrames(ev.state)
      [] ev.type = "error" -> <<[type |-> "error", error |-> ev.error]>>
      [] OTHER -> <<>>

\* full_response after one iteration of the loop
RelayFullResponse(ev, full_response) ==
    CASE ev.type = "narrative" ->
            IF ev.content # <<>> THEN ev.content ELSE full_response
      [] ev.type = "workflow_end" -> WorkflowEndResponse(ev.state, full_response)
      [] OTHER -> full_response

\* final_state after one iteration of the loop
RelayFinalState(ev, final_state) ==
    IF ev.type = "workflow_end" THEN ev.state ELSE final_state

\* turn_number = state.get("turn_number", 0) + 1
NextTurnNumber(state) == Get(state, "turn_number", 0) + 1

CompleteFrame(full_response, session_id, turn_number) ==
    [type |-> "complete", response |-> full_response,
     session_id |-> session_id, turn_number |-> turn_number]

\* title=question[:100] if turn_number == 1 else None
TitleArg(question, turn_number) ==
    IF turn_number = 1 THEN Prefix(question, TitleLen) ELSE None

\* state={**final_state, "turn_number": turn_number}
SessionStateArg(final_state, turn_number) ==
    Merge(final_state, [turn_number |-> turn_number])

\* ------------------------------------------------------------------------
\* DatabricksStorage: effect of the statements on the two tables
\* (app/storage/databricks.py)
\* ------------------------------------------------------------------------
\* save_session: title_escaped = (title or "").replace("'", "''")
TitleEscaped(title) ==
    SqlEscape(IF title = None \/ title = <<>> THEN <<>> ELSE title)

\* save_session: the MERGE statement applied to the sessions table
MergeSession(table, session_id, user_id, state, title) ==
    IF session_id \in DOMAIN table
    THEN [table EXCEPT ![session_id] =
             [@ EXCEPT !.state = state,
                       !.title = SqlLiteralValue(TitleEscaped(title))]]
    ELSE Put(table, session_id,
             [user_id |-> user_id,
              title   |-> SqlLiteralValue(TitleEscaped(title)),
              state   |-> state])

\* get_session: is there a row (the result is not None)
SessionExists(table, session_id) == session_id \in DOMAIN table

\* get_session(...).get("state", {}) of an existing session
SessionState(table, session_id) == table[session_id].state

\* save_turn: the INSERT statement applied to the turns table
InsertTurn(table, session_id, turn_number, user_question, agent_response) ==
    Append(table, [session_id     |-> session_id,
                   turn_number    |-> turn_number,
                   user_question  |-> SqlLiteralValue(SqlEscape(user_question)),
                   agent_response |-> SqlLiteralValue(SqlEscape(agent_response))])

\* rows of one session, in table order
RECURSIVE RowsOf(_, _)
RowsOf(table, session_id) ==
    IF table = <<>> THEN <<>>
    ELSE IF Head(table).session_id = session_id
         THEN <<Head(table)>> \o RowsOf(Tail(table), session_id)
         ELSE RowsOf(Tail(table), session_id)

\* ORDER BY turn_number ASC
RECURSIVE InsertByTurn(_, _)
InsertByTurn(sorted, row) ==
    IF sorted = <<>> THEN <<row>>
    ELSE IF row.turn_number < Head(sorted).turn_number
         THEN <<row>> \o sorted
         ELSE <<Head(sorted)>> \o InsertByTurn(Tail(sorted), row)

RECURSIVE SortByTurn(_)
SortByTurn(rows) ==
    IF rows = <<>> THEN <<>>
    ELSE InsertByTurn(SortByTurn(SubSeq(rows, 1, Len(rows) - 1)), rows[Len(rows)])

\* a get_turns without ORDER BY: the rows as the table holds them
GetTurnsInTableOrder(table, session_id) == RowsOf(table, session_id)

\* get_turns without limit
GetTurns(table, session_id) == SortByTurn(RowsOf(table, session_id))

\* the character `, which a string literal holds only before a '
Backtick == SubSeq("`'", 1, 1)

\* the characters with the code points 1 to 255, in the order of ord()
CodeChars ==
    <<"", "", "", "", "", "", "", "",
      "\t", "\n", "", "\f", "\r", "", "", "",
      "", "", "", "", "", "", "", "",
      "", "", "", "", "", "", "", " ",
      "!", "\"", "#", "$", "%", "&", "'", "(",
      ")", "*", "+", ",", "-", ".", "/", "0",
      "1", "2", "3", "4", "5", "6", "7", "8",
      "9", ":", ";", "<", "=", ">", "?", "@",
      "A", "B", "C", "D", "E", "F", "G", "H",
      "I", "J", "K", "L", "M", "N", "O", "P",
      "Q", "R", "S", "T", "U", "V", "W", "X",
      "Y", "Z", "[", "\\", "]", "^", "_", Backtick,
      "a", "b", "c", "d", "e", "f", "g", "h",
      "i", "j", "k", "l", "m", "n", "o", "p",
      "q", "r", "s", "t", "u", "v", "w", "x",
      "y", "z", "{", "|", "}", "~", "", "",
      "", "", "", "", "", "", "", "",
      "", "", "", "", "", "", "", "",
      "", "", "", "", "", "", "", "",
      "", "", "", "", "", "", "", " ",
      "¡", "¢", "£", "¤", "¥", "¦", "§", "¨",
      "©", "ª", "«", "¬", "­", "®", "¯", "°",
      "±", "²", "³", "´", "µ", "¶", "·", "¸",
      "¹", "º", "»", "¼", "½", "¾", "¿", "À",
      "Á", "Â", "Ã", "Ä", "Å", "Æ", "Ç", "È",
      "É", "Ê", "Ë", "Ì", "Í", "Î", "Ï", "Ð",
      "Ñ", "Ò", "Ó", "Ô", "Õ", "Ö", "×", "Ø",
      "Ù", "Ú", "Û", "Ü", "Ý", "Þ", "ß", "à",
      "á", "â", "ã", "ä", "å", "æ", "ç", "è",
      "é", "ê", "ë", "ì", "í", "î", "ï", "ð",
      "ñ", "ò", "ó", "ô", "õ", "ö", "÷", "ø",
      "ù", "ú", "û", "ü", "ý", "þ", "ÿ">>

\* characters beyond them the texts of the model may hold, and their code
\* points: a Greek letter, a space mark, a currency sign, the replacement
\* character
MoreChars == <<"Δ", " ", "€", "�">>

MoreCodes == <<916, 5760, 8364, 65533>>

\* ord(ch) of a character of the tables, -1 for any other
CodeOf(ch) ==
    LET hits == {n \in 1..Len(CodeChars) : CodeChars[n] = ch}
        more == {i \in 1..Len(MoreChars) : MoreChars[i] = ch}
    IN  IF hits # {} THEN CHOOSE n \in hits : TRUE
        ELSE IF more # {} THEN MoreCodes[CHOOSE i \in more : TRUE]
        ELSE -1

\* chr(n) of a code point of the tables, "" for any other
CharOf(n) ==
    LET more == {i \in 1..Len(MoreCodes) : MoreCodes[i] = n}
    IN  IF n \in 1..Len(CodeChars) THEN CodeChars[n]
        ELSE IF more # {} THEN MoreChars[CHOOSE i \in more : TRUE]
        ELSE ""

HexDigits ==
    <<"0", "1", "2", "3", "4", "5", "6", "7", "8", "9", "a", "b", "c", "d", "e", "f">>

UpperHexDigits == <<"A", "B", "C", "D", "E", "F">>

\* '{0:04x}'.format(n)
Hex4(n) ==
    <<HexDigits[((n \div 4096) % 16) + 1], HexDigits[((n \div 256) % 16) + 1],
      HexDigits[((n \div 16) % 16) + 1], HexDigits[(n % 16) + 1]>>

\* value of a hexadecimal digit in either case, -1 for any other character
HexValue(ch) ==
    LET lower == {i \in 1..16 : HexDigits[i] = ch}
        upper == {i \in 1..6 : UpperHexDigits[i] = ch}
    IN  IF lower # {} THEN (CHOOSE i \in lower : TRUE) - 1
        ELSE IF upper # {} THEN (CHOOSE i \in upper : TRUE) + 9
        ELSE -1

\* int(esc, 16) of the four digits after \u, -1 unless all four are digits
Hex4Value(d) ==
    IF \E i \in 1..4 : HexValue(d[i]) = -1 THEN -1
    ELSE HexValue(d[1]) * 4096 + HexValue(d[2]) * 256 + HexValue(d[3]) * 16
         + HexValue(d[4])

\* json.dumps of one character (ensure_ascii): the two-character escapes,
\* \uXXXX for every other character outside ' ' .. '~', the character itself
\* inside.  The texts of the model are texts of the characters of the
\* tables; a character outside them has no code here and is left as it is.
JsonEscapeChar(ch) ==
    CASE ch = "\"" -> <<"\\", "\"">>
      [] ch = "\\" -> <<"\\", "\\">>
      [] ch = "\n" -> <<"\\", "n">>
      [] ch = "\r" -> <<"\\", "r">>
      [] ch = "\t" -> <<"\\", "t">>
      [] ch = "\f" -> <<"\\", "f">>
      [] ch = CodeChars[8] -> <<"\\", "b">>
      [] OTHER -> LET n == CodeOf(ch)
                  IN  IF n # -1 /\ (n < 32 \/ n > 126)
                      THEN <<"\\", "u">> \o Hex4(n)
                      ELSE <<ch>>

\* json.dumps of a text: the escapes inside the quotes
RECURSIVE JsonEscape(_)
JsonEscape(s) ==
    IF s = <<>> THEN <<>>
    ELSE IF Len(s) = 1 THEN JsonEscapeChar(s[1])
    ELSE LET m == Len(s) \div 2
         IN  JsonEscape(SubSeq(s, 1, m)) \o JsonEscape(SubSeq(s, m + 1, Len(s)))

\* the character a two-character escape stands for, "" when json.loads
\* knows no such escape
JsonShortEscape(ch) ==
    CASE ch = "\"" -> "\""
      [] ch = "\\" -> "\\"
      [] ch = "/" -> "/"
      [] ch = "b" -> CodeChars[8]
      [] ch = "f" -> "\f"
      [] ch = "n" -> "\n"
      [] ch = "r" -> "\r"
      [] ch = "t" -> "\t"
      [] OTHER -> ""

\* the inside of a JSON string json.loads accepts: no bare quote, no bare
\* control character (a character below ' '), every backslash followed by a
\* known escape or by u and four hexadecimal digits
RECURSIVE JsonStringValid(_)
JsonStringValid(s) ==
    IF s = <<>> THEN TRUE
    ELSE IF s[1] = "\\"
         THEN IF Len(s) >= 2 /\ JsonShortEscape(s[2]) # ""
              THEN JsonStringValid(SubSeq(s, 3, Len(s)))
              ELSE /\ Len(s) >= 6
                   /\ s[2] = "u"
                   /\ Hex4Value(SubSeq(s, 3, 6)) # -1
                   /\ JsonStringValid(SubSeq(s, 7, Len(s)))
    ELSE /\ s[1] # "\""
         /\ CodeOf(s[1]) \notin 1..31
         /\ JsonStringValid(Tail(s))

\* the text of an accepted inside: each escape replaced by its character (a
\* \uXXXX whose character is none of the tables stays as written)
RECURSIVE JsonDecoded(_)
JsonDecoded(s) ==
    IF s = <<>> THEN <<>>
    ELSE IF s[1] = "\\"
         THEN IF s[2] = "u"
              THEN LET ch == CharOf(Hex4Value(SubSeq(s, 3, 6)))
                   IN  (IF ch # "" THEN <<ch>> ELSE SubSeq(s, 1, 6))
                       \o JsonDecoded(SubSeq(s, 7, Len(s)))
              ELSE <<JsonShortEscape(s[2])>> \o JsonDecoded(SubSeq(s, 3, Len(s)))
    ELSE <<Head(s)>> \o JsonDecoded(Tail(s))

\* json.JSONDecodeError
JsonDecodeError == <<"JSONDecodeError">>

\* json.loads of the inside of a JSON string
JsonUnescape(s) ==
    IF JsonStringValid(s) THEN JsonDecoded(s) ELSE JsonDecodeError

JsonString(s) == <<"\"">> \o JsonEscape(s) \o <<"\"">>

\* json.dumps(state) for a state with at most the field q
JsonDumps(state) ==
    IF DOMAIN state = {} THEN <<"{", "}">>
    ELSE <<"{">> \o JsonString(<<"q">>) \o <<":", " ">> \o JsonString(state["q"])
         \o <<"}">>

\* the text is one json.dumps writes for a state with at most the field q,
\* but for the inside of the string, and json.loads accepts that inside
JsonLoadable(text) ==
    \/ text = <<"{", "}">>
    \/ /\ Len(text) >= 9
       /\ SubSeq(text, 1, 7) = <<"{", "\"", "q", "\"", ":", " ", "\"">>
       /\ SubSeq(text, Len(text) - 1, Len(text)) = <<"\"", "}">>
       /\ JsonStringValid(SubSeq(text, 8, Len(text) - 2))

\* json.loads of the text of a state column: the state, or the
\* JSONDecodeError json.loads raises for a text that is no JSON (other JSON
\* documents than those of such states are no values of the column here)
JsonLoads(text) ==
    IF ~JsonLoadable(text) THEN JsonDecodeError
    ELSE IF text = <<"{", "}">> THEN EmptyDict
    ELSE Put(EmptyDict, "q", JsonUnescape(SubSeq(text, 8, Len(text) - 2)))

\* save_session: the MERGE statement with every column; the state column
\* holds the JSON text, `now` is the timestamp the call took
MergeSessionRow(table, session_id, user_id, state, title, now) ==
    LET state_json    == SqlEscape(JsonDumps(state))
        title_escaped == TitleEscaped(title)
    IN  IF session_id \in DOMAIN table
        THEN [table EXCEPT ![session_id] =
                 [@ EXCEPT !.state = SqlLiteralValue(state_json),
                           !.title = SqlLiteralValue(title_escaped),
                           !.updated_at = now]]
        ELSE Put(table, session_id,
                 [user_id    |-> user_id,
                  title      |-> SqlLiteralValue(title_escaped),
                  state      |-> SqlLiteralValue(state_json),
                  created_at |-> now,
                  updated_at |-> now])

\* get_session: None without a row, else the row with the state decoded;
\* the JSONDecodeError of json.loads, which get_session does not catch, for
\* a row whose state is no JSON
GetSessionResult(table, session_id) ==
    IF session_id \notin DOMAIN table THEN None
    ELSE LET row == table[session_id]
         IN  IF row.state # <<>> /\ ~JsonLoadable(row.state)
             THEN JsonDecodeError
             ELSE [session_id |-> session_id,
                   user_id    |-> row.user_id,
                   title      |-> row.title,
                   state      |-> IF row.state # <<>> THEN JsonLoads(row.state)
                                  ELSE EmptyDict,
                   created_at |-> row.created_at,
                   updated_at |-> row.updated_at]
\* DELETE FROM turns WHERE session_id = '...'
DeleteTurnRows(table, session_id) ==
    SelectSeq(table, LAMBDA r : r.session_id # session_id)

\* a delete_session that removes the turns and leaves the session row
DeleteSessionRowKept(table, session_id) == table

\* DELETE FROM sessions WHERE session_id = '...'
DeleteSessionRow(table, session_id) ==
    IF session_id \in DOMAIN table THEN Pop(table, session_id) ELSE table

\* a statement the warehouse holds, with the values of its text; `by` is
\* "relay" for a statement of a chat handler, the task for one of the call
\* under way or the latest call of a task that calls the store itself, and
\* "past" for one of a call the task has made another call after
InsertStatement(by, session_id, turn_number, user_question, agent_response) ==
    [sql |-> "INSERT", by |-> by, session_id |-> session_id, user_id |-> None,
     state |-> EmptyDict, title |-> None, now |-> 0,
     turn_number |-> turn_number, user_question |-> user_question,
     agent_response |-> agent_response]

MergeStatement(by, session_id, user_id, state, title, now) ==
    [sql |-> "MERGE", by |-> by, session_id |-> session_id, user_id |-> user_id,
     state |-> state, title |-> title, now |-> now,
     turn_number |-> 0, user_question |-> <<>>, agent_response |-> <<>>]

DeleteStatement(sql, by, session_id) ==
    [sql |-> sql, by |-> by, session_id |-> session_id, user_id |-> None,
     state |-> EmptyDict, title |-> None, now |-> 0,
     turn_number |-> 0, user_question |-> <<>>, agent_response |-> <<>>]

\* the sessions table once the warehouse has run statement st
SessionsAfter(st, table) ==
    IF st.sql = "MERGE" /\ st.by = "relay"
    THEN MergeSession(table, st.session_id, st.user_id, st.state, st.title)
    ELSE IF st.sql = "MERGE"
    THEN MergeSessionRow(table, st.session_id, st.user_id, st.state, st.title,
                         st.now)
    ELSE IF st.sql = "DELETE_SESSION" THEN DeleteSessionRow(table, st.session_id)
    ELSE table

\* the turns table once the warehouse has run statement st
TurnsAfter(st, table) ==
    IF st.sql = "INSERT"
    THEN InsertTurn(table, st.session_id, st.turn_number, st.user_question,
                    st.agent_response)
    ELSE IF st.sql = "DELETE_TURNS" THEN DeleteTurnRows(table, st.session_id)
    ELSE table

\* a sequence without its i-th element
Without(seq, i) == SubSeq(seq, 1, i - 1) \o SubSeq(seq, i + 1, Len(seq))

\* the history frame of websocket_chat_session
HistoryFrame(session_id, turns) ==
    [type |-> "history", session_id |-> session_id,
     turns |-> [i \in 1..Len(turns) |->
                   [turn_number |-> turns[i].turn_number,
                    question    |-> turns[i].user_question,
                    response    |-> turns[i].agent_response]]]

VARIABLES
    nar,                 \* handling of one narrative event: content, words left, frames sent
    pc,                  \* per connection: position of its handler task
    loc,                 \* per connection: local variables of the handler and of stream_response_workflow
    out,                 \* per connection: frames delivered to the client since the last inbound frame
    link,                \* per connection: "up", or "down" once the client has gone away
    lostAt,              \* per connection: position of the task when the client went away
    quota,               \* inbound frames the clients will still send
    active_connections,  \* manager.active_connections: the dict session id -> connection
    replaced,            \* connections whose registry entry was overwritten by another connection
    sessions_table,      \* sessions table: session id -> row
    turns_table,         \* turns table: rows in insertion order
    faults,              \* store statements that will still fail
    inflight,            \* statements the warehouse has accepted and not yet run, their callers without an answer
    uuid_next,           \* number of uuid4() values handed out
    wf_available,        \* whether the external workflow can be imported and built
    wf_initialized,      \* workflow_service._initialized
    wf_importable,       \* whether `from app.services.workflow import ...` succeeds
    storage,             \* whether app.main.storage is set (it is None before startup)
    db,                  \* the clock and the tasks that call the store's methods directly
    bc,                  \* one call of ConnectionManager.broadcast / send_json
    ex,                  \* one call of _execute_sql: position and local variables
    stmts                \* the statements the warehouse has accepted: their states

relayVars == <<pc, loc, out, link, lostAt, quota, active_connections, replaced,
               sessions_table, turns_table, faults, inflight, uuid_next,
               wf_available, wf_initialized, wf_importable, storage, db, bc>>

execVars == <<ex, stmts>>

vars == <<nar, relayVars, execVars>>

\* results of the store's methods
NoResult == [kind |-> "none"]

Absent == [kind |-> "absent"]

RowResult(row) == [kind |-> "row", row |-> row]

RowsResult(rows) == [kind |-> "rows", rows |-> rows]

BoolResult(b) == [kind |-> "bool", value |-> b]

\* the answer to a statement the warehouse has run and that changes rows
Ran == [kind |-> "ran"]

\* the answer to the SELECT of get_session the relay is given: the state of
\* the row the warehouse found, or absence
SelectSession(table, session_id) ==
    IF SessionExists(table, session_id)
    THEN RowResult(SessionState(table, session_id))
    ELSE Absent

\* ------------------------------------------------------------------------
\* Initial values
\* ------------------------------------------------------------------------
\* `loaded` records how the handler's latest load of the session went:
\* "absent" (no store), "failed", "missing" (no row), "found", and after
\* get_turns "history" or "turns_failed"; `tokens` are the stream frames the
\* `for word in words` loop under way has still to send, `turns` the rows
\* get_turns returned, `attempt` the attempt _execute_sql is at in the store
\* call under way, `answer` the answer to the statement of that attempt
\* while the handler is suspended in `await response.json()` and has not
\* read it: the warehouse has run the statement, the rows of a SELECT are
\* those it found then
NewLocals ==
    [endpoint      |-> "none",
     inbound       |-> "none",
     session_id    |-> None,
     user_id       |-> None,
     user_email    |-> None,
     question      |-> <<>>,
     state         |-> EmptyDict,
     full_response |-> <<>>,
     final_state   |-> EmptyDict,
     turn_number   |-> 0,
     wf            |-> WfNew,
     tokens        |-> <<>>,
     turns         |-> <<>>,
     attempt       |-> 0,
     answer        |-> NoResult,
     loaded        |-> "none"]

RelayIdle ==
    /\ pc = [c \in Conns |-> "new"]
    /\ loc = [c \in Conns |-> NewLocals]
    /\ out = [c \in Conns |-> <<>>]
    /\ link = [c \in Conns |-> "up"]
    /\ lostAt = [c \in Conns |-> "none"]
    /\ active_connections = NewDict
    /\ replaced = {}
    /\ sessions_table = EmptyDict
    /\ turns_table = <<>>
    /\ uuid_next = 0
    /\ wf_initialized = FALSE

\* no broadcast or send_json call of the manager is under way; of the
\* iterator of a broadcast, `start` is the dict when it was made, `pos` the
\* slot it has come to and `left` the number of values it still expects
BroadcastIdle ==
    [pc |-> "idle", start |-> NewDict, pos |-> 0, left |-> 0,
     visited |-> {}, cur |-> None,
     target |-> "none", sent |-> {}, error |-> "none",
     sends |-> 0, send_id |-> None, send_pc |-> "idle", send_target |-> "none",
     send_result |-> "none"]

\* tasks that call the methods of the store
Tasks == {"t1", "t2"}

\* no call of a store method: the fields are the arguments and locals of a
\* call, `existed` whether the session had a row when the call began,
\* `attempt` the attempt _execute_sql is at in the statement under way,
\* `answer` the answer to that statement while the call is suspended in
\* `await response.json()` and has not read it
NoCall ==
    [op |-> "none", pc |-> "none", session_id |-> None, user_id |-> None,
     state |-> EmptyDict, title |-> None, turn_number |-> 0,
     limit |-> 0, offset |-> 0, now |-> 0, existed |-> FALSE,
     attempt |-> 0, answer |-> NoResult, result |-> NoResult]

\* the clock reads 0, no task has called the store; per task: the call under
\* way or the latest one, the call before it, and what others have written
\* meanwhile.  A write of others is a statement of another task that took
\* effect, or a statement the warehouse runs late that is none of this
\* task's call under way or latest call.  dirty holds the session ids
\* others have written to since this task's last writing call issued its
\* first statement, since_return those since that call ended, late those
\* the warehouse has written to with a late statement since this task's
\* latest call began
StoreIdle ==
    [clock |-> 0, calls |-> 0,
     task |-> [t \in Tasks |->
                  [cur |-> NoCall, prev |-> NoCall, dirty |-> {},
                   since_return |-> {}, late |-> {}]]]

NarrativeIdle ==
    nar = [pc |-> "event", content |-> <<>>, full_response |-> <<>>,
           words |-> <<>>, frames |-> <<>>]

\* _execute_sql(sql_query, timeout) when it is called; state is not bound
\* before the first answer has been read, status and answer are the HTTP
\* status of the answer to the submission and the state the answer to a
\* poll carries
NewCall(timeout) ==
    [pc           |-> "submit",
     timeout      |-> timeout,
     attempt      |-> 0,
     status       |-> 0,
     state        |-> "unbound",
     answer       |-> "",
     statement_id |-> 0,
     poll_count   |-> 0,
     caught       |-> "none",
     delays       |-> <<>>,
     result       |-> "none"]

ExecIdle ==
    /\ ex = [NewCall(0) EXCEPT !.pc = "idle"]
    /\ stmts = <<>>

\* ------------------------------------------------------------------------
\* The narrative branch of the relay loop, one word per step
\* ------------------------------------------------------------------------
InitNarrative ==
    /\ nar \in {[pc |-> "event", content |-> t, full_response |-> <<>>,
                 words |-> <<>>, frames |-> <<>>] : t \in Texts}
    /\ RelayIdle
    /\ quota = 0
    /\ faults = 0
    /\ inflight = <<>>
    /\ wf_available = TRUE
    /\ wf_importable = TRUE
    /\ bc = BroadcastIdle
    /\ storage = TRUE
    /\ db = StoreIdle
    /\ ExecIdle

\* elif event_type == "narrative": content = ...; if content: split
BeginNarrative ==
    /\ nar.pc = "event"
    /\ IF nar.content # <<>>
       THEN nar' = [nar EXCEPT !.pc = "words",
                               !.full_response = nar.content,
                               !.words = Split(nar.content)]
       ELSE nar' = [nar EXCEPT !.pc = "done"]
    /\ UNCHANGED <<relayVars, execVars>>

\* for word in words: send_json({"type": "stream", "token": word + " ", ...})
StreamWord ==
    /\ nar.pc = "words"
    /\ nar.words # <<>>
    /\ nar' = [nar EXCEPT !.words = Tail(nar.words),
                          !.frames = Append(nar.frames,
                                            StreamFrame(Token(Head(nar.words)), FALSE))]
    /\ UNCHANGED <<relayVars, execVars>>

EndWords ==
    /\ nar.pc = "words"
    /\ nar.words = <<>>
    /\ nar' = [nar EXCEPT !.pc = "done"]
    /\ UNCHANGED <<relayVars, execVars>>

NextNarrative == BeginNarrative \/ StreamWord \/ EndWords

SpecNarrative == InitNarrative /\ [][NextNarrative]_vars

\* ------------------------------------------------------------------------
\* The relay: connection handlers websocket_chat and websocket_chat_session
\* ------------------------------------------------------------------------
UserIds == {<<"u1">>}

\* order in which the connections of a run are opened
ConnOrder == <<"c1", "c2">>

\* inbound frames a client may send
MessageFrames ==
    {[kind |-> "message", session_id |-> sid, user_id |-> u, question |-> q] :
        sid \in SessionIds \cup {None}, u \in UserIds \cup {None}, q \in RawQuestions}

\* frames the handlers cannot process: text that is not JSON, JSON that is
\* not an object, a message whose question is not a string
Malformed ==
    {[kind |-> "bad_json"], [kind |-> "non_object"]}
    \cup {[kind |-> "bad_question", session_id |-> sid] : sid \in SessionIds \cup {None}}

storeVars == <<sessions_table, turns_table, faults, inflight>>

\* a handler that reads the next frame while the writes of the turn are
\* still under way
CanReceiveWhileSaving(c) ==
    /\ pc[c] \in {"idle", "save_turn", "save_session"}
    /\ link[c] = "up"
    /\ quota > 0

\* the handler of c is suspended in receive_json and a frame can arrive
CanReceive(c) ==
    /\ pc[c] = "idle"
    /\ link[c] = "up"
    /\ quota > 0

\* max_retries = 3
MaxRetries == 3

\* One attempt of _execute_sql at a statement has two awaits, between
\* which other handlers and tasks run: the POST (session.post, lines 73-77)
\* and the reading of the answer (response.json() at line 78 and the polls).
\* What the POST can come to:
\*   "ran"     the warehouse runs the statement and answers; the caller is
\*             suspended in `await response.json()`;
\*   "lost"    the warehouse has accepted it and an aiohttp.ClientError
\*             follows (the answer to the submission or to a poll is not
\*             read);
\*   "unsent"  an aiohttp.ClientError before the warehouse has it (the
\*             request fails, or it is refused with a body that is not
\*             JSON);
\*   "broken"  the warehouse has accepted it and another exception follows
\*             (the answer is not JSON, a poll is answered without a state,
\*             the polls run out while it is still PENDING or RUNNING);
\*   "fail"    it is never run and another exception follows (the
\*             submission is refused or times out, the statement ends
\*             FAILED or CANCELED)
\* A statement the warehouse has accepted without the call seeing it
\* SUCCEEDED is run by the warehouse at a time of its own: before the next
\* attempt, after the call has ended, or never.
StoreOutcomes ==
    IF faults > 0 THEN {"ran", "lost", "unsent", "broken", "fail"} ELSE {"ran"}

\* what the reading of the answer to a statement the warehouse has run can
\* come to:
\*   "ok"      the answer is read and says SUCCEEDED: the call returns the
\*             rows;
\*   "unread"  an aiohttp.ClientError while the answer is read;
\*   "misread" another exception while the answer is read (the body is not
\*             JSON)
AnswerOutcomes ==
    IF faults > 0 THEN {"ok", "unread", "misread"} ELSE {"ok"}

\* the outcomes of the next step of an attempt whose answer so far is
\* `answer`
AttemptOutcomes(answer) ==
    IF answer = NoResult THEN StoreOutcomes ELSE AnswerOutcomes

\* the statement of the attempt takes effect at this step
Applied(o) == o = "ran"

\* the attempt leaves its statement with the warehouse, not yet run
Accepted(o) == o \in {"lost", "broken"}

\* the statements in flight after a step at statement st that came to o
InflightAfter(o, st) == IF Accepted(o) THEN Append(inflight, st) ELSE inflight

\* except aiohttp.ClientError: if attempt < max_retries - 1, sleep and go
\* round the loop again
Retried(o, attempt) ==
    o \in {"lost", "unsent", "unread"} /\ attempt < MaxRetries - 1

\* faults left after a step that came to o
FaultsAfter(o) == IF o \in {"ran", "ok", "absent"} THEN faults ELSE faults - 1

\* outcome of websocket.send_json: delivered while the client is there; once
\* the client has gone the frame is lost, and the call either returns (the
\* transport has not noticed yet) or raises
SendOutcomes(c) == IF link[c] = "up" THEN {"ok"} ELSE {"drop", "raise"}

Delivered(c, frames, so) == IF so = "ok" THEN out[c] \o frames ELSE out[c]

\* manager.active_connections[session_id] = websocket
Register(session_id, c) ==
    /\ active_connections' = DictSet(active_connections, session_id, c)
    /\ replaced' = replaced \cup
          (IF session_id \in DictKeys(active_connections)
              /\ DictValue(active_connections, session_id) # c
           THEN {DictValue(active_connections, session_id)} ELSE {})

\* ConnectionManager.disconnect
Disconnect(registry, session_id) == DictPop(registry, session_id)

\* the two except clauses that end a handler: websocket_chat unregisters
\* `session_id` if it is set, websocket_chat_session always
RegistryAfterExit(registry, l) ==
    IF l.endpoint = "chat" /\ l.session_id = None THEN registry
    ELSE Disconnect(registry, l.session_id)

\* locals of stream_response_workflow are gone when it returns
Returned(l) ==
    [l EXCEPT !.full_response = <<>>, !.final_state = EmptyDict,
              !.turn_number = 0, !.wf = WfNew, !.tokens = <<>>, !.attempt = 0,
              !.answer = NoResult]

\* a relay that closes the connection once it has reported an error
SendStepClosingOnError(c, frames, so, nextpc, newloc) ==
    IF so = "raise" \/ \E i \in 1..Len(frames) : frames[i].type = "error"
    THEN /\ pc' = [pc EXCEPT ![c] = "ended"]
         /\ active_connections' = RegistryAfterExit(active_connections, loc[c])
         /\ out' = [out EXCEPT ![c] = IF so = "raise" THEN @
                                      ELSE Delivered(c, frames, so)]
         /\ UNCHANGED loc
    ELSE /\ pc' = [pc EXCEPT ![c] = nextpc]
         /\ loc' = [loc EXCEPT ![c] = newloc]
         /\ out' = [out EXCEPT ![c] = Delivered(c, frames, so)]
         /\ UNCHANGED active_connections

\* one or more send_json calls at one place of the handler: on success the
\* handler goes on to nextpc with locals newloc; if the send raises, so do
\* the error reports of the enclosing except clauses, and the handler ends
SendStep(c, frames, so, nextpc, newloc) ==
    IF so = "raise"
    THEN /\ pc' = [pc EXCEPT ![c] = "ended"]
         /\ active_connections' = RegistryAfterExit(active_connections, loc[c])
         /\ UNCHANGED <<loc, out>>
    ELSE /\ pc' = [pc EXCEPT ![c] = nextpc]
         /\ loc' = [loc EXCEPT ![c] = newloc]
         /\ out' = [out EXCEPT ![c] = Delivered(c, frames, so)]
         /\ UNCHANGED active_connections

\* websocket_chat up to its first receive_json
ConnectChat(c) ==
    /\ pc[c] = "new"
    /\ \A i \in 1..Len(ConnOrder) :
          ConnOrder[i] = c => \A j \in 1..(i - 1) : pc[ConnOrder[j]] # "new"
    /\ pc' = [pc EXCEPT ![c] = "idle"]
    /\ loc' = [loc EXCEPT ![c].endpoint = "chat"]
    /\ UNCHANGED <<nar, execVars, out, link, lostAt, quota, active_connections, replaced,
                   storeVars, uuid_next, wf_available, wf_initialized, wf_importable, storage, db, bc>>

\* websocket_chat_session: accept and register under the path's session id
ConnectSession(c, sid) ==
    /\ pc[c] = "new"
    /\ \A i \in 1..Len(ConnOrder) :
          ConnOrder[i] = c => \A j \in 1..(i - 1) : pc[ConnOrder[j]] # "new"
    /\ Register(sid, c)
    /\ pc' = [pc EXCEPT ![c] = "resume_load"]
    /\ loc' = [loc EXCEPT ![c].endpoint = "chat_session",
                          ![c].session_id = sid,
                          ![c].state = EmptyDict]
    /\ UNCHANGED <<nar, execVars, out, link, lostAt, quota, storeVars, uuid_next,
                   wf_available, wf_initialized, wf_importable, storage, db, bc>>

\* websocket_chat_session: existing_session = await storage.get_session(...),
\* one attempt of _execute_sql at the SELECT: the warehouse runs it while
\* the handler waits, then the handler reads the answer
ResumeLoad(c) ==
    /\ pc[c] = "resume_load"
    /\ IF ~storage
       THEN /\ pc' = [pc EXCEPT ![c] = "idle"]
            /\ loc' = [loc EXCEPT ![c].loaded = "absent"]
            /\ UNCHANGED faults
       ELSE \E o \in AttemptOutcomes(loc[c].answer) :
          /\ faults' = FaultsAfter(o)
          /\ IF o = "ran"
             THEN /\ loc' = [loc EXCEPT ![c].answer =
                                SelectSession(sessions_table, loc[c].session_id)]
                  /\ UNCHANGED pc
             ELSE IF Retried(o, loc[c].attempt)
             THEN /\ loc' = [loc EXCEPT ![c].attempt = @ + 1,
                                       ![c].answer = NoResult]
                  /\ UNCHANGED pc
             ELSE IF o = "ok" /\ loc[c].answer.kind = "row"
             THEN /\ loc' = [loc EXCEPT ![c].state = loc[c].answer.row,
                                       ![c].loaded = "found",
                                       ![c].attempt = 0,
                                       ![c].answer = NoResult]
                  /\ pc' = [pc EXCEPT ![c] = "resume_turns"]
             ELSE /\ pc' = [pc EXCEPT ![c] = "idle"]
                  /\ loc' = [loc EXCEPT ![c].loaded =
                                IF o = "ok" THEN "missing" ELSE "failed",
                                       ![c].attempt = 0,
                                       ![c].answer = NoResult]
    /\ UNCHANGED <<nar, execVars, out, link, lostAt, quota, active_connections, replaced,
                   sessions_table, turns_table, inflight, uuid_next,
                   wf_available, wf_initialized, wf_importable, storage, db, bc>>

\* websocket_chat_session: turns = await storage.get_turns(session_id), one
\* attempt of _execute_sql at the SELECT; a failure is caught and printed
ResumeTurns(c) ==
    /\ pc[c] = "resume_turns"
    /\ \E o \in AttemptOutcomes(loc[c].answer) :
          /\ faults' = FaultsAfter(o)
          /\ IF o = "ran"
             THEN /\ loc' = [loc EXCEPT ![c].answer =
                                RowsResult(GetTurns(turns_table, loc[c].session_id))]
                  /\ UNCHANGED pc
             ELSE IF Retried(o, loc[c].attempt)
             THEN /\ loc' = [loc EXCEPT ![c].attempt = @ + 1,
                                       ![c].answer = NoResult]
                  /\ UNCHANGED pc
             ELSE IF o = "ok"
             THEN /\ loc' = [loc EXCEPT ![c].turns = loc[c].answer.rows,
                                       ![c].loaded = "history",
                                       ![c].attempt = 0,
                                       ![c].answer = NoResult]
                  /\ pc' = [pc EXCEPT ![c] = "resume_history"]
             ELSE /\ loc' = [loc EXCEPT ![c].loaded = "turns_failed",
                                       ![c].attempt = 0,
                                       ![c].answer = NoResult]
                  /\ pc' = [pc EXCEPT ![c] = "idle"]
    /\ UNCHANGED <<nar, execVars, out, link, lostAt, quota, active_connections, replaced,
                   sessions_table, turns_table, inflight, uuid_next,
                   wf_available, wf_initialized, wf_importable, storage, db, bc>>

\* websocket_chat_session: the history frame of the turns get_turns
\* returned; a failure of the send is caught and printed
ResumeHistory(c) ==
    /\ pc[c] = "resume_history"
    /\ \E so \in SendOutcomes(c) :
          out' = [out EXCEPT ![c] = Delivered(c,
                     <<HistoryFrame(loc[c].session_id, loc[c].turns)>>, so)]
    /\ loc' = [loc EXCEPT ![c].turns = <<>>]
    /\ pc' = [pc EXCEPT ![c] = "idle"]
    /\ UNCHANGED <<nar, execVars, link, lostAt, quota, active_connections, replaced,
                   storeVars, uuid_next,
                   wf_available, wf_initialized, wf_importable, storage, db, bc>>

\* a ping frame is received
ReceivePing(c) ==
    /\ CanReceive(c)
    /\ quota' = quota - 1
    /\ out' = [out EXCEPT ![c] = <<>>]
    /\ pc' = [pc EXCEPT ![c] = "pong"]
    /\ loc' = [loc EXCEPT ![c].inbound = "ping"]
    /\ UNCHANGED <<nar, execVars, link, lostAt, active_connections, replaced,
                   storeVars, uuid_next, wf_available, wf_initialized, wf_importable, storage, db, bc>>

\* a handler that answers a ping with two pong frames
SendPongTwice(c) ==
    /\ pc[c] = "pong"
    /\ \E so \in SendOutcomes(c) :
          SendStep(c, <<[type |-> "pong"], [type |-> "pong"]>>, so, "idle", loc[c])
    /\ UNCHANGED <<nar, execVars, link, lostAt, quota, replaced, storeVars, uuid_next,
                   wf_available, wf_initialized, wf_importable, storage, db, bc>>

\* await websocket.send_json({"type": "pong"}); continue
SendPong(c) ==
    /\ pc[c] = "pong"
    /\ \E so \in SendOutcomes(c) :
          SendStep(c, <<[type |-> "pong"]>>, so, "idle", loc[c])
    /\ UNCHANGED <<nar, execVars, link, lostAt, quota, replaced, storeVars, uuid_next,
                   wf_available, wf_initialized, wf_importable, storage, db, bc>>

\* a JSON object whose type is neither ping nor message: no branch is taken
ReceiveOther(c) ==
    /\ CanReceive(c)
    /\ quota' = quota - 1
    /\ out' = [out EXCEPT ![c] = <<>>]
    /\ loc' = [loc EXCEPT ![c].inbound = "other"]
    /\ UNCHANGED <<nar, execVars, pc, link, lostAt, active_connections, replaced,
                   storeVars, uuid_next, wf_available, wf_initialized, wf_importable, storage, db, bc>>

\* session_id = data.get("session_id") or str(uuid.uuid4())
FrameSessionId(f) ==
    IF f.session_id # None THEN f.session_id ELSE UuidSeq[uuid_next + 1]

\* the handler's locals after the assignments that precede question.strip()
AfterFrameFields(l, f) ==
    IF l.endpoint = "chat"
    THEN [l EXCEPT !.session_id = FrameSessionId(f),
                   !.user_id = IF f.user_id # None THEN f.user_id
                               ELSE <<"anonymous">>,
                   !.user_email = None]
    ELSE [l EXCEPT !.user_id = IF f.user_id # None THEN f.user_id
                               ELSE Get(l.state, "user_id", <<"anonymous">>),
                   !.user_email = None]

\* uuid4() is called by websocket_chat when the frame carries no session id
UsesUuid(l, f) == l.endpoint = "chat" /\ f.session_id = None

\* state["current_question"] = question; ... state["user_id"] = user_id
StateUpdate(state, question, session_id, user_id) ==
    Merge(state, [current_question |-> question,
                  user_question    |-> question,
                  session_id       |-> session_id,
                  user_id          |-> user_id])

\* a frame the handler cannot process: the exception leaves the loop and is
\* caught by `except Exception`, which unregisters and ends the handler
ReceiveMalformed(c, f) ==
    /\ CanReceive(c)
    /\ f \in Malformed
    /\ f.kind = "bad_question" /\ UsesUuid(loc[c], f) => uuid_next < Len(UuidSeq)
    /\ LET l0 == [loc[c] EXCEPT !.inbound = f.kind]
           l == IF f.kind = "bad_question"
                THEN AfterFrameFields(l0, f @@ [user_id |-> None])
                ELSE l0
       IN  /\ loc' = [loc EXCEPT ![c] = l]
           /\ active_connections' = RegistryAfterExit(active_connections, l)
           /\ uuid_next' = IF f.kind = "bad_question" /\ UsesUuid(loc[c], f)
                           THEN uuid_next + 1 ELSE uuid_next
    /\ quota' = quota - 1
    /\ out' = [out EXCEPT ![c] = <<>>]
    /\ pc' = [pc EXCEPT ![c] = "ended"]
    /\ UNCHANGED <<nar, execVars, link, lostAt, replaced, storeVars,
                   wf_available, wf_initialized, wf_importable, storage, db, bc>>

\* a message frame: an empty question is rejected; otherwise websocket_chat
\* registers and loads the session, websocket_chat_session updates its state
ReceiveMessage(c, f) ==
    /\ CanReceive(c)
    /\ f \in MessageFrames
    /\ UsesUuid(loc[c], f) => uuid_next < Len(UuidSeq)
    /\ quota' = quota - 1
    /\ uuid_next' = IF UsesUuid(loc[c], f) THEN uuid_next + 1 ELSE uuid_next
    /\ out' = [out EXCEPT ![c] = <<>>]
    /\ LET l == [AfterFrameFields(loc[c], f) EXCEPT !.question = Strip(f.question),
                                                    !.inbound = "message"]
       IN  IF l.question = <<>>
           THEN /\ loc' = [loc EXCEPT ![c] = l]
                /\ pc' = [pc EXCEPT ![c] = "reject"]
                /\ UNCHANGED <<active_connections, replaced>>
           ELSE /\ IF l.endpoint = "chat"
                   THEN /\ Register(l.session_id, c)
                        /\ loc' = [loc EXCEPT ![c] = l]
                        /\ pc' = [pc EXCEPT ![c] = "load"]
                   ELSE /\ loc' = [loc EXCEPT ![c] =
                               [l EXCEPT !.state = StateUpdate(l.state, l.question,
                                                               l.session_id, l.user_id)]]
                        /\ pc' = [pc EXCEPT ![c] = "start"]
                        /\ UNCHANGED <<active_connections, replaced>>
    /\ UNCHANGED <<nar, execVars, link, lostAt, storeVars, wf_available, wf_initialized, wf_importable, storage, db, bc>>

\* if not question: send the error frame; continue
SendReject(c) ==
    /\ pc[c] = "reject"
    /\ \E so \in SendOutcomes(c) :
          SendStep(c, <<[type |-> "error", error |-> "Question cannot be empty"]>>,
                   so, "idle", loc[c])
    /\ UNCHANGED <<nar, execVars, link, lostAt, quota, replaced, storeVars, uuid_next,
                   wf_available, wf_initialized, wf_importable, storage, db, bc>>

\* a handler that reports a session it could not load and drops the message
LoadStateReporting(c) ==
    /\ pc[c] = "load"
    /\ \E o \in (IF storage THEN AttemptOutcomes(loc[c].answer) ELSE {"absent"}) :
          /\ faults' = FaultsAfter(o)
          /\ IF o = "ran"
             THEN /\ loc' = [loc EXCEPT ![c].answer =
                                SelectSession(sessions_table, loc[c].session_id)]
                  /\ UNCHANGED <<pc, out>>
             ELSE IF Retried(o, loc[c].attempt)
             THEN /\ loc' = [loc EXCEPT ![c].attempt = @ + 1,
                                       ![c].answer = NoResult]
                  /\ UNCHANGED <<pc, out>>
             ELSE /\ LET l == loc[c]
                         found == o = "ok" /\ l.answer.kind = "row"
                         state0 == IF found THEN l.answer.row ELSE EmptyDict
                     IN  loc' = [loc EXCEPT ![c].state =
                                    StateUpdate(state0, l.question, l.session_id, l.user_id),
                                           ![c].loaded =
                                    IF found THEN "found"
                                    ELSE IF o = "ok" THEN "missing"
                                    ELSE IF o = "absent" THEN "absent" ELSE "failed",
                                           ![c].attempt = 0,
                                           ![c].answer = NoResult]
                  /\ IF o # "ok"
                     THEN /\ out' = [out EXCEPT ![c] =
                                        Append(@, [type |-> "error",
                                                   error |-> "session not loaded"])]
                          /\ pc' = [pc EXCEPT ![c] = "idle"]
                     ELSE /\ pc' = [pc EXCEPT ![c] = "start"]
                          /\ UNCHANGED out
    /\ UNCHANGED <<nar, execVars, link, lostAt, quota, active_connections, replaced,
                   sessions_table, turns_table, inflight, uuid_next,
                   wf_available, wf_initialized, wf_importable, storage, db, bc>>

\* websocket_chat: load the session state, one attempt of _execute_sql at
\* the SELECT of get_session: the warehouse runs it while the handler
\* waits, then the handler reads the answer (without a store, and when the
\* load fails, the state stays empty) and puts the question, the session id
\* and the user id into the state
LoadState(c) ==
    /\ pc[c] = "load"
    /\ \E o \in (IF storage THEN AttemptOutcomes(loc[c].answer) ELSE {"absent"}) :
          /\ faults' = FaultsAfter(o)
          /\ IF o = "ran"
             THEN /\ loc' = [loc EXCEPT ![c].answer =
                                SelectSession(sessions_table, loc[c].session_id)]
                  /\ UNCHANGED pc
             ELSE IF Retried(o, loc[c].attempt)
             THEN /\ loc' = [loc EXCEPT ![c].attempt = @ + 1,
                                       ![c].answer = NoResult]
                  /\ UNCHANGED pc
             ELSE /\ LET l == loc[c]
                         found == o = "ok" /\ l.answer.kind = "row"
                         state0 == IF found THEN l.answer.row ELSE EmptyDict
                     IN  loc' = [loc EXCEPT ![c].state =
                                    StateUpdate(state0, l.question, l.session_id, l.user_id),
                                           ![c].loaded =
                                    IF found THEN "found"
                                    ELSE IF o = "ok" THEN "missing"
                                    ELSE IF o = "absent" THEN "absent" ELSE "failed",
                                           ![c].attempt = 0,
                                           ![c].answer = NoResult]
                  /\ pc' = [pc EXCEPT ![c] = "start"]
    /\ UNCHANGED <<nar, execVars, out, link, lostAt, quota, active_connections, replaced,
                   sessions_table, turns_table, inflight, uuid_next,
                   wf_available, wf_initialized, wf_importable, storage, db, bc>>

\* a relay without the initial status frame
StartWorkflowSilent(c) ==
    /\ pc[c] = "start"
    /\ wf_importable
    /\ wf_initialized' = (wf_initialized \/ wf_available)
    /\ \E so \in SendOutcomes(c) :
          SendStep(c, <<>>, so, "run",
                   [loc[c] EXCEPT !.full_response = <<>>,
                                  !.final_state = loc[c].state,
                                  !.wf = WfNew])
    /\ UNCHANGED <<nar, execVars, link, lostAt, quota, replaced, storeVars, uuid_next,
                   wf_available, wf_importable, storage, db, bc>>

\* stream_response_workflow up to the loop: get_workflow_service, the
\* initial status frame, full_response = "", final_state = state.copy()
StartWorkflow(c) ==
    /\ pc[c] = "start"
    /\ wf_importable
    /\ wf_initialized' = (wf_initialized \/ wf_available)
    /\ \E so \in SendOutcomes(c) :
          SendStep(c, <<[type |-> "status", status |-> "processing",
                         message |-> "Processing your question..."]>>, so, "run",
                   [loc[c] EXCEPT !.full_response = <<>>,
                                  !.final_state = loc[c].state,
                                  !.wf = WfNew])
    /\ UNCHANGED <<nar, execVars, link, lostAt, quota, replaced, storeVars, uuid_next,
                   wf_available, wf_importable, storage, db, bc>>

\* one iteration of `async for event in workflow_service.run_workflow(...)`
\* up to its first await after the event: the frame of the event is sent, or
\* the token of the first word of a narrative or of a greeting, whose other
\* tokens follow one by one, each after the asyncio.sleep(0.02) that comes
\* after the token before it
RelayEvent(c, i) ==
    /\ pc[c] = "run"
    /\ i \in WfInputs(loc[c].wf)
    /\    LET l == loc[c]
              ev == WfYield(l.wf, i, wf_initialized,
                            BuildInitialState(l.question, l.session_id, l.user_id,
                                              l.user_email, l.state))
              frames == RelayFrames(ev)
              later == IF frames = <<>> THEN <<>> ELSE Tail(frames)
              newloc == [l EXCEPT !.wf = WfAfter(l.wf, i, wf_initialized),
                                  !.full_response = RelayFullResponse(ev, l.full_response),
                                  !.final_state = RelayFinalState(ev, l.final_state),
                                  !.tokens = later]
          IN  \E so \in (IF frames = <<>> THEN {"ok"} ELSE SendOutcomes(c)) :
                 SendStep(c, IF frames = <<>> THEN <<>> ELSE <<Head(frames)>>, so,
                          IF later = <<>> THEN "run" ELSE "stream", newloc)
    /\ UNCHANGED <<nar, execVars, link, lostAt, quota, replaced, storeVars, uuid_next,
                   wf_available, wf_initialized, wf_importable, storage, db, bc>>

\* the next round of `for word in words`: the token of the next word, then
\* asyncio.sleep(0.02); after the last word the loop over the events goes on
StreamToken(c) ==
    /\ pc[c] = "stream"
    /\ \E so \in SendOutcomes(c) :
          SendStep(c, <<Head(loc[c].tokens)>>, so,
                   IF Len(loc[c].tokens) > 1 THEN "stream" ELSE "run",
                   [loc[c] EXCEPT !.tokens = Tail(loc[c].tokens)])
    /\ UNCHANGED <<nar, execVars, link, lostAt, quota, replaced, storeVars, uuid_next,
                   wf_available, wf_initialized, wf_importable, storage, db, bc>>

\* a relay that ends the stream only when a response text was streamed
SendStreamDoneIfText(c) ==
    /\ pc[c] = "run"
    /\ WfExhausted(loc[c].wf)
    /\ \E so \in SendOutcomes(c) :
          SendStep(c, IF loc[c].full_response # <<>>
                      THEN <<StreamFrame(<<>>, TRUE)>> ELSE <<>>,
                   so, "complete", loc[c])
    /\ UNCHANGED <<nar, execVars, link, lostAt, quota, replaced, storeVars, uuid_next,
                   wf_available, wf_initialized, wf_importable, storage, db, bc>>

\* after the loop: the stream frame with done = true
SendStreamDone(c) ==
    /\ pc[c] = "run"
    /\ WfExhausted(loc[c].wf)
    /\ \E so \in SendOutcomes(c) :
          SendStep(c, <<StreamFrame(<<>>, TRUE)>>, so, "complete", loc[c])
    /\ UNCHANGED <<nar, execVars, link, lostAt, quota, replaced, storeVars, uuid_next,
                   wf_available, wf_initialized, wf_importable, storage, db, bc>>

\* turn_number = state.get("turn_number", 0) + 1 and the complete frame
SendComplete(c) ==
    /\ pc[c] = "complete"
    /\ LET tn == NextTurnNumber(loc[c].state)
       IN  \E so \in SendOutcomes(c) :
              SendStep(c, <<CompleteFrame(loc[c].full_response,
                                          loc[c].session_id, tn)>>, so,
                       "save_turn", [loc[c] EXCEPT !.turn_number = tn])
    /\ UNCHANGED <<nar, execVars, link, lostAt, quota, replaced, storeVars, uuid_next,
                   wf_available, wf_initialized, wf_importable, storage, db, bc>>

\* a relay whose failed save_turn is reported to the client
SaveTurnReporting(c) ==
    /\ pc[c] = "save_turn"
    /\ \E o \in (IF storage THEN AttemptOutcomes(loc[c].answer) ELSE {"absent"}) :
          IF o = "absent"
          THEN /\ pc' = [pc EXCEPT ![c] = "idle"]
               /\ loc' = [loc EXCEPT ![c] = Returned(loc[c])]
               /\ UNCHANGED <<turns_table, faults, inflight, out>>
          ELSE /\ turns_table' =
                     IF Applied(o)
                     THEN InsertTurn(turns_table, loc[c].session_id,
                                     loc[c].turn_number, loc[c].question,
                                     loc[c].full_response)
                     ELSE turns_table
               /\ inflight' = InflightAfter(o, InsertStatement(
                                   "relay", loc[c].session_id, loc[c].turn_number,
                                   loc[c].question, loc[c].full_response))
               /\ faults' = FaultsAfter(o)
               /\ IF o = "ran"
                  THEN /\ loc' = [loc EXCEPT ![c].answer = Ran]
                       /\ UNCHANGED <<pc, out>>
                  ELSE IF o = "ok"
                  THEN /\ pc' = [pc EXCEPT ![c] = "save_session"]
                       /\ loc' = [loc EXCEPT ![c].attempt = 0,
                                            ![c].answer = NoResult]
                       /\ UNCHANGED out
                  ELSE IF Retried(o, loc[c].attempt)
                  THEN /\ loc' = [loc EXCEPT ![c].attempt = @ + 1,
                                            ![c].answer = NoResult]
                       /\ UNCHANGED <<pc, out>>
                  ELSE /\ pc' = [pc EXCEPT ![c] = "idle"]
                       /\ loc' = [loc EXCEPT ![c] = Returned(loc[c])]
                       /\ out' = [out EXCEPT ![c] =
                                     Append(@, [type |-> "error",
                                                error |-> "store failed"])]
    /\ UNCHANGED <<nar, execVars, link, lostAt, quota, active_connections, replaced,
                   sessions_table, uuid_next, wf_available, wf_initialized,
                   wf_importable, storage, db, bc>>

\* if storage: await storage.save_turn(...), one attempt of _execute_sql at
\* the INSERT: the warehouse runs it while the handler waits for the
\* answer; the answer read, the call returns and save_session follows; or
\* the attempt is retried, or it raises and save_session is skipped
SaveTurn(c) ==
    /\ pc[c] = "save_turn"
    /\ \E o \in (IF storage THEN AttemptOutcomes(loc[c].answer) ELSE {"absent"}) :
          IF o = "absent"
          THEN /\ pc' = [pc EXCEPT ![c] = "idle"]
               /\ loc' = [loc EXCEPT ![c] = Returned(loc[c])]
               /\ UNCHANGED <<turns_table, faults, inflight>>
          ELSE /\ turns_table' =
                     IF Applied(o)
                     THEN InsertTurn(turns_table, loc[c].session_id,
                                     loc[c].turn_number, loc[c].question,
                                     loc[c].full_response)
                     ELSE turns_table
               /\ inflight' = InflightAfter(o, InsertStatement(
                                   "relay", loc[c].session_id, loc[c].turn_number,
                                   loc[c].question, loc[c].full_response))
               /\ faults' = FaultsAfter(o)
               /\ IF o = "ran"
                  THEN /\ loc' = [loc EXCEPT ![c].answer = Ran]
                       /\ UNCHANGED pc
                  ELSE IF o = "ok"
                  THEN /\ pc' = [pc EXCEPT ![c] = "save_session"]
                       /\ loc' = [loc EXCEPT ![c].attempt = 0,
                                            ![c].answer = NoResult]
                  ELSE IF Retried(o, loc[c].attempt)
                  THEN /\ loc' = [loc EXCEPT ![c].attempt = @ + 1,
                                            ![c].answer = NoResult]
                       /\ UNCHANGED pc
                  ELSE /\ pc' = [pc EXCEPT ![c] = "idle"]
                       /\ loc' = [loc EXCEPT ![c] = Returned(loc[c])]
    /\ UNCHANGED <<nar, execVars, out, link, lostAt, quota, active_connections, replaced,
                   sessions_table, uuid_next, wf_available, wf_initialized, wf_importable, storage, db, bc>>

\* await storage.save_session(...), one attempt of _execute_sql at the
\* MERGE: the warehouse runs it while the handler waits for the answer;
\* when the call has returned or raised, back to receive_json
SaveSession(c) ==
    /\ pc[c] = "save_session"
    /\ \E o \in AttemptOutcomes(loc[c].answer) :
          /\ sessions_table' =
                IF Applied(o)
                THEN MergeSession(sessions_table, loc[c].session_id, loc[c].user_id,
                                  SessionStateArg(loc[c].final_state, loc[c].turn_number),
                                  TitleArg(loc[c].question, loc[c].turn_number))
                ELSE sessions_table
          /\ inflight' = InflightAfter(o, MergeStatement(
                              "relay", loc[c].session_id, loc[c].user_id,
                              SessionStateArg(loc[c].final_state, loc[c].turn_number),
                              TitleArg(loc[c].question, loc[c].turn_number), 0))
          /\ faults' = FaultsAfter(o)
          /\ IF o = "ran"
             THEN /\ loc' = [loc EXCEPT ![c].answer = Ran]
                  /\ UNCHANGED pc
             ELSE IF Retried(o, loc[c].attempt)
             THEN /\ loc' = [loc EXCEPT ![c].attempt = @ + 1,
                                       ![c].answer = NoResult]
                  /\ UNCHANGED pc
             ELSE /\ pc' = [pc EXCEPT ![c] = "idle"]
                  /\ loc' = [loc EXCEPT ![c] = Returned(loc[c])]
    /\ UNCHANGED <<nar, execVars, out, link, lostAt, quota, active_connections, replaced,
                   turns_table, uuid_next, wf_available, wf_initialized, wf_importable, storage, db, bc>>

\* f"I received your question: '{question}'. " "This is a placeholder ..."
PlaceholderHead ==
    << "I", " ", "r", "e", "c", "e", "i", "v", "e", "d", " ", "y",
       "o", "u", "r", " ", "q", "u", "e", "s", "t", "i", "o", "n",
       ":", " ", "'">>

PlaceholderTail ==
    << "'", ".", " ", "T", "h", "i", "s", " ", "i", "s", " ", "a",
       " ", "p", "l", "a", "c", "e", "h", "o", "l", "d", "e", "r",
       " ", "r", "e", "s", "p", "o", "n", "s", "e", " ", "f", "o",
       "r", " ", "t", "e", "s", "t", "i", "n", "g", ".", " ", "C",
       "o", "n", "n", "e", "c", "t", " ", "D", "a", "t", "a", "b",
       "r", "i", "c", "k", "s", " ", "c", "r", "e", "d", "e", "n",
       "t", "i", "a", "l", "s", " ", "t", "o", " ", "e", "n", "a",
       "b", "l", "e", " ", "t", "h", "e", " ", "f", "u", "l", "l",
       " ", "w", "o", "r", "k", "f", "l", "o", "w", ".">>

PlaceholderResponse(question) == PlaceholderHead \o question \o PlaceholderTail

\* stream_response_placeholder, entered when the workflow module cannot be
\* imported: the initial status frame
PlaceholderStart(c) ==
    /\ pc[c] = "start"
    /\ ~wf_importable
    /\ \E so \in SendOutcomes(c) :
          SendStep(c, <<[type |-> "status", status |-> "processing",
                         message |-> "Processing your question..."]>>, so, "ph_stream",
                   [loc[c] EXCEPT !.full_response = <<>>,
                                  !.tokens = TokenFrames(
                                      PlaceholderResponse(loc[c].question))])
    /\ UNCHANGED <<nar, execVars, link, lostAt, quota, replaced, storeVars, uuid_next,
                   wf_available, wf_initialized, wf_importable, storage, db, bc>>

\* one round of `for word in words`: token = word + " ";
\* full_response += token; send it; asyncio.sleep(0.03)
PlaceholderStream(c) ==
    /\ pc[c] = "ph_stream"
    /\ LET frame == Head(loc[c].tokens)
       IN  \E so \in SendOutcomes(c) :
              SendStep(c, <<frame>>, so,
                       IF Len(loc[c].tokens) > 1 THEN "ph_stream" ELSE "ph_done",
                       [loc[c] EXCEPT !.full_response = @ \o frame.token,
                                      !.tokens = Tail(loc[c].tokens)])
    /\ UNCHANGED <<nar, execVars, link, lostAt, quota, replaced, storeVars, uuid_next,
                   wf_available, wf_initialized, wf_importable, storage, db, bc>>

\* the stream frame with done = true
PlaceholderDone(c) ==
    /\ pc[c] = "ph_done"
    /\ \E so \in SendOutcomes(c) :
          SendStep(c, <<StreamFrame(<<>>, TRUE)>>, so, "ph_complete", loc[c])
    /\ UNCHANGED <<nar, execVars, link, lostAt, quota, replaced, storeVars, uuid_next,
                   wf_available, wf_initialized, wf_importable, storage, db, bc>>

\* the complete frame carries full_response.strip() and
\* state.get("turn_number", 1); the writes that follow use
\* turn_number = state.get("turn_number", 0) + 1 and the state itself
PlaceholderComplete(c) ==
    /\ pc[c] = "ph_complete"
    /\ \E so \in SendOutcomes(c) :
          SendStep(c, <<CompleteFrame(Strip(loc[c].full_response), loc[c].session_id,
                                      Get(loc[c].state, "turn_number", 1))>>, so,
                   "save_turn",
                   [loc[c] EXCEPT !.full_response = Strip(loc[c].full_response),
                                  !.final_state = loc[c].state,
                                  !.turn_number = NextTurnNumber(loc[c].state)])
    /\ UNCHANGED <<nar, execVars, link, lostAt, quota, replaced, storeVars, uuid_next,
                   wf_available, wf_initialized, wf_importable, storage, db, bc>>

\* positions of a handler between accept and its end
Positions == {"resume_load", "resume_turns", "resume_history", "idle", "pong",
              "reject", "load", "start", "run", "stream", "ph_stream", "ph_done",
              "ph_complete", "complete", "save_turn", "save_session"}

\* the warehouse runs a statement it had accepted and whose caller went on
\* without an answer; to a task that calls the store it is a write of
\* others unless the statement is one of the task's call under way or
\* latest call
WarehouseRuns(i) ==
    /\ i \in 1..Len(inflight)
    /\ LET st == inflight[i]
       IN  /\ sessions_table' = SessionsAfter(st, sessions_table)
           /\ turns_table' = TurnsAfter(st, turns_table)
           /\ db' = IF st.by = "relay" THEN db
                    ELSE [db EXCEPT !.task =
                             [u \in Tasks |->
                                 IF st.by = u THEN db.task[u]
                                 ELSE [db.task[u] EXCEPT
                                          !.dirty = @ \cup {st.session_id},
                                          !.since_return = @ \cup {st.session_id},
                                          !.late = @ \cup {st.session_id}]]]
    /\ inflight' = Without(inflight, i)
    /\ UNCHANGED <<nar, execVars, pc, loc, out, link, lostAt, quota,
                   active_connections, replaced, faults, uuid_next,
                   wf_available, wf_initialized, wf_importable, storage, bc>>

\* the client goes away while the handler is at one of `positions`
ClientDisconnect(c, positions) ==
    /\ pc[c] \in positions
    /\ link[c] = "up"
    /\ link' = [link EXCEPT ![c] = "down"]
    /\ lostAt' = [lostAt EXCEPT ![c] = pc[c]]
    /\ UNCHANGED <<nar, execVars, pc, loc, out, quota, active_connections, replaced,
                   storeVars, uuid_next, wf_available, wf_initialized, wf_importable, storage, db, bc>>

\* receive_json raises WebSocketDisconnect: unregister, the handler ends
ReceiveDisconnect(c) ==
    /\ pc[c] = "idle"
    /\ link[c] = "down"
    /\ pc' = [pc EXCEPT ![c] = "ended"]
    /\ active_connections' = RegistryAfterExit(active_connections, loc[c])
    /\ UNCHANGED <<nar, execVars, loc, out, link, lostAt, quota, replaced, storeVars,
                   uuid_next, wf_available, wf_initialized, wf_importable, storage, db, bc>>

\* every input the run_workflow generator can be given
AllWfInputs ==
    {[k |-> "pending"], [k |-> "begin"], [k |-> "raise"]}
    \cup {[k |-> "node_end", ne |-> ne] : ne \in NodeEnds}
    \cup {[k |-> "workflow_end", specials |-> S] : S \in SpecialChoices}

\* the inputs of a plain turn: a narrative, then a final state without
\* special fields, or a failure
PlainWfInputs ==
    {i \in AllWfInputs :
        /\ i.k = "node_end" => i.ne.name = "narrative_agent"
        /\ i.k = "workflow_end" => i.specials = {}}

\* the message frames of a plain conversation
PlainMessageFrames ==
    {f \in MessageFrames :
        /\ f.session_id # None
        /\ f.user_id # None
        /\ f.question \in {<<" ", "\r">>, <<"q">>}}

\* one connection on /chat, every kind of inbound frame and workflow event
InitTurn ==
    /\ NarrativeIdle
    /\ RelayIdle
    /\ quota = MaxTurnFrames
    /\ faults = MaxFaults
    /\ inflight = <<>>
    /\ ExecIdle
    /\ wf_available \in BOOLEAN
    /\ wf_importable = TRUE
    /\ bc = BroadcastIdle
    /\ storage = TRUE
    /\ db = StoreIdle

NextTurn ==
    \E c \in {"c1"} :
        \/ ConnectChat(c)
        \/ ReceivePing(c)
        \/ SendPong(c)
        \/ ReceiveOther(c)
        \/ \E f \in Malformed : ReceiveMalformed(c, f)
        \/ \E f \in MessageFrames : ReceiveMessage(c, f)
        \/ SendReject(c)
        \/ LoadState(c)
        \/ StartWorkflow(c)
        \/ \E i \in AllWfInputs : RelayEvent(c, i)
        \/ StreamToken(c)
        \/ SendStreamDone(c)
        \/ SendComplete(c)
        \/ SaveTurn(c)
        \/ SaveSession(c)
        \/ ClientDisconnect(c, Positions)
        \/ \E i \in DOMAIN inflight : WarehouseRuns(i)
        \/ ReceiveDisconnect(c)

SpecTurn == InitTurn /\ [][NextTurn]_vars

\* one connection on /chat with a working store: well-formed messages,
\* every kind of workflow event, the client may leave during the run
InitClarify ==
    /\ NarrativeIdle
    /\ RelayIdle
    /\ quota = MaxTurnFrames
    /\ faults = 0
    /\ inflight = <<>>
    /\ ExecIdle
    /\ wf_available = TRUE
    /\ wf_importable = TRUE
    /\ bc = BroadcastIdle
    /\ storage = TRUE
    /\ db = StoreIdle

NextClarify ==
    \E c \in {"c1"} :
        \/ ConnectChat(c)
        \/ \E f \in PlainMessageFrames : ReceiveMessage(c, f)
        \/ SendReject(c)
        \/ LoadState(c)
        \/ StartWorkflow(c)
        \/ \E i \in AllWfInputs : RelayEvent(c, i)
        \/ StreamToken(c)
        \/ SendStreamDone(c)
        \/ SendComplete(c)
        \/ SaveTurn(c)
        \/ SaveSession(c)
        \/ ClientDisconnect(c, {"run", "stream"})
        \/ ReceiveDisconnect(c)

SpecClarify == InitClarify /\ [][NextClarify]_vars

\* one connection on either endpoint holding a plain conversation of
\* several messages, on the workflow path or on the placeholder path, with
\* a store that may fail; the store starts empty and the connection is the
\* only one, so the resume of /chat/{session_id} never finds a session
InitSession ==
    /\ NarrativeIdle
    /\ RelayIdle
    /\ quota = MaxFrames
    /\ faults = MaxFaults
    /\ inflight = <<>>
    /\ ExecIdle
    /\ wf_available \in BOOLEAN
    /\ wf_importable \in BOOLEAN
    /\ bc = BroadcastIdle
    /\ storage \in BOOLEAN
    /\ db = StoreIdle

NextSession ==
    \E c \in {"c1"} :
        \/ ConnectChat(c)
        \/ \E sid \in SessionIds : ConnectSession(c, sid)
        \/ ResumeLoad(c)
        \/ ReceivePing(c)
        \/ SendPong(c)
        \/ \E f \in PlainMessageFrames : ReceiveMessage(c, f)
        \/ SendReject(c)
        \/ LoadState(c)
        \/ StartWorkflow(c)
        \/ \E i \in PlainWfInputs : RelayEvent(c, i)
        \/ StreamToken(c)
        \/ SendStreamDone(c)
        \/ SendComplete(c)
        \/ PlaceholderStart(c)
        \/ PlaceholderStream(c)
        \/ PlaceholderDone(c)
        \/ PlaceholderComplete(c)
        \/ SaveTurn(c)
        \/ SaveSession(c)
        \/ ClientDisconnect(c, {"idle", "run", "stream"})
        \/ \E i \in DOMAIN inflight : WarehouseRuns(i)
        \/ ReceiveDisconnect(c)

SpecSession == InitSession /\ [][NextSession]_vars

\* turn numbers, in the order of their INSERTs, of the rows earlier
\* connections have left for one session: none, one turn, two turns on
\* /chat, and two turns on /chat followed by the turn of a /chat/{session_id}
\* connection that was opened before them and numbers its turn 1 again
StoredTurnNumbers == {<<>>, <<1>>, <<1, 2>>, <<1, 2, 1>>}

\* the turns table after save_turn calls with these turn numbers
RECURSIVE TurnsTableOf(_, _)
TurnsTableOf(session_id, numbers) ==
    IF numbers = <<>> THEN <<>>
    ELSE InsertTurn(TurnsTableOf(session_id, SubSeq(numbers, 1, Len(numbers) - 1)),
                    session_id, numbers[Len(numbers)], <<"q">>, <<"a">>)

\* the sessions table after save_session calls for these sessions
StoredSessions(ids) ==
    [sid \in ids |->
        MergeSession(EmptyDict, sid, <<"u1">>,
                     SessionStateArg(StateUpdate(EmptyDict, <<"q">>, sid, <<"u1">>), 1),
                     TitleArg(<<"q">>, 1))[sid]]

\* one connection on /chat/{session_id} to a store earlier connections have
\* written to: the resume, then pings and plain messages on the placeholder
\* path; the store may be absent or fail, the client may leave
InitResume ==
    /\ NarrativeIdle
    /\ pc = [c \in Conns |-> "new"]
    /\ loc = [c \in Conns |-> NewLocals]
    /\ out = [c \in Conns |-> <<>>]
    /\ link = [c \in Conns |-> "up"]
    /\ lostAt = [c \in Conns |-> "none"]
    /\ active_connections = NewDict
    /\ replaced = {}
    /\ sessions_table \in {StoredSessions(ids) : ids \in SUBSET {<<"s1">>}}
    /\ \E n1 \in StoredTurnNumbers, n2 \in {<<>>, <<1>>} :
          turns_table = TurnsTableOf(<<"s2">>, n2) \o TurnsTableOf(<<"s1">>, n1)
    /\ uuid_next = 0
    /\ wf_initialized = FALSE
    /\ quota = MaxFrames
    /\ faults = MaxFaults
    /\ inflight = <<>>
    /\ ExecIdle
    /\ wf_available = FALSE
    /\ wf_importable = FALSE
    /\ bc = BroadcastIdle
    /\ storage \in BOOLEAN
    /\ db = StoreIdle

NextResume ==
    \E c \in {"c1"} :
        \/ \E sid \in SessionIds : ConnectSession(c, sid)
        \/ ResumeLoad(c)
        \/ ResumeTurns(c)
        \/ ResumeHistory(c)
        \/ ReceivePing(c)
        \/ SendPong(c)
        \/ \E f \in PlainMessageFrames : ReceiveMessage(c, f)
        \/ SendReject(c)
        \/ PlaceholderStart(c)
        \/ PlaceholderStream(c)
        \/ PlaceholderDone(c)
        \/ PlaceholderComplete(c)
        \/ SaveTurn(c)
        \/ SaveSession(c)
        \/ ClientDisconnect(c, {"resume_load", "resume_turns", "resume_history", "idle"})
        \/ \E i \in DOMAIN inflight : WarehouseRuns(i)
        \/ ReceiveDisconnect(c)

SpecResume == InitResume /\ [][NextResume]_vars

\* two connections on either endpoint, plain conversations
InitRelay ==
    /\ NarrativeIdle
    /\ RelayIdle
    /\ quota = MaxFrames
    /\ faults = 0
    /\ inflight = <<>>
    /\ ExecIdle
    /\ wf_available = TRUE
    /\ wf_importable = TRUE
    /\ bc = BroadcastIdle
    /\ storage = TRUE
    /\ db = StoreIdle

NextRelay ==
    \E c \in Conns :
        \/ ConnectChat(c)
        \/ \E sid \in SessionIds : ConnectSession(c, sid)
        \/ ResumeLoad(c)
        \/ ResumeTurns(c)
        \/ ResumeHistory(c)
        \/ ReceivePing(c)
        \/ SendPong(c)
        \/ \E f \in Malformed : ReceiveMalformed(c, f)
        \/ \E f \in PlainMessageFrames : ReceiveMessage(c, f)
        \/ SendReject(c)
        \/ LoadState(c)
        \/ StartWorkflow(c)
        \/ \E i \in PlainWfInputs : RelayEvent(c, i)
        \/ StreamToken(c)
        \/ SendStreamDone(c)
        \/ SendComplete(c)
        \/ SaveTurn(c)
        \/ SaveSession(c)
        \/ ClientDisconnect(c, {"idle"})
        \/ ReceiveDisconnect(c)

SpecRelay == InitRelay /\ [][NextRelay]_vars

\* C2: for every narrative content, the tokens of the done=false stream
\* frames emitted for it, concatenated in emission order, equal the content
\* exactly, whitespace included.
C2_TokensReproduceContent ==
    nar.pc = "done" => Concat(StreamTokens(nar.frames)) = nar.content

\* the text with leading whitespace dropped, every other run of whitespace
\* replaced by one space, and one space after the last word
RECURSIVE NormaliseFrom(_, _)
NormaliseFrom(s, i) ==
    IF i > Len(s) THEN <<>>
    ELSE IF s[i] \in Whitespace THEN NormaliseFrom(s, i + 1)
    ELSE <<s[i]>>
         \o (IF i = Len(s) \/ s[i + 1] \in Whitespace THEN <<" ">> ELSE <<>>)
         \o NormaliseFrom(s, i + 1)

\* ------------------------------------------------------------------------
\* DatabricksStorage._execute_sql against the warehouse's statement API
\* ------------------------------------------------------------------------
\* base_delay = 2.0
BaseDelay == 2

\* await asyncio.sleep(2) between polls; max_polls = timeout // 2
PollInterval == 2

RECURSIVE Pow2(_)
Pow2(n) == IF n = 0 THEN 1 ELSE 2 * Pow2(n - 1)

\* a back-off that starts at twice the base delay
RetryDelayDoubled(attempt) == BaseDelay * Pow2(attempt + 1)

\* delay = base_delay * (2 ** attempt)
RetryDelay(attempt) == BaseDelay * Pow2(attempt)

\* a poll budget of one round per second of the timeout
MaxPollsPerSecond(timeout) == timeout

MaxPolls(timeout) == timeout \div PollInterval

\* while state in ("PENDING", "RUNNING") and poll_count < max_polls
PollAgain(e) ==
    e.state \in {"PENDING", "RUNNING"} /\ e.poll_count < MaxPolls(e.timeout)

\* the outcome for the state the polling ended with
Classify(state) ==
    IF state = "SUCCEEDED" THEN "rows"
    ELSE IF state = "FAILED" THEN "execution_failed"
    ELSE "unexpected_state"

\* an except clause that backs off after the last attempt as well
OnClientErrorAlwaysRetrying(e, where) ==
    [e EXCEPT !.pc = "backoff", !.caught = where]

\* except aiohttp.ClientError: back off and go round the retry loop again,
\* or re-raise on the last attempt
OnClientError(e, where) ==
    IF e.attempt < MaxRetries - 1
    THEN [e EXCEPT !.pc = "backoff", !.caught = where]
    ELSE [e EXCEPT !.pc = "done", !.caught = where, !.result = "client_error"]

\* an executor that treats a FAILED statement like a transient failure
AfterStateRetryingFailed(e, state) ==
    LET e1 == [e EXCEPT !.state = state]
    IN  IF PollAgain(e1) THEN [e1 EXCEPT !.pc = "poll"]
        ELSE IF state = "FAILED" /\ e.attempt < MaxRetries - 1
        THEN [e1 EXCEPT !.pc = "backoff"]
        ELSE [e1 EXCEPT !.pc = "done", !.result = Classify(state)]

\* after the response to the submission or to a poll carried `state`
AfterState(e, state) ==
    LET e1 == [e EXCEPT !.state = state]
    IN  IF PollAgain(e1) THEN [e1 EXCEPT !.pc = "poll"]
        ELSE [e1 EXCEPT !.pc = "done", !.result = Classify(state)]

\* an exception that is no aiohttp.ClientError (asyncio.TimeoutError of the
\* session's ClientTimeout, ValueError of response.json() on a body that is
\* not JSON, AttributeError of result.get on a body that is no object)
\* passes the except clause: the call ends with it, whatever the attempt
OnOtherError(e) == [e EXCEPT !.pc = "done", !.result = "other"]

\* a status the statement API refuses a submission with
ErrorStatuses == {503}

\* session.post(...): the request fails with an aiohttp.ClientError or with
\* another exception, or it is answered: with 200 by a warehouse that has
\* accepted the statement, or with an error status
Submit ==
    /\ ex.pc = "submit"
    /\ \/ /\ ex' = OnClientError(ex, "submit")
          /\ UNCHANGED stmts
       \/ /\ ex' = OnOtherError(ex)
          /\ UNCHANGED stmts
       \/ /\ stmts' = Append(stmts, "PENDING")
          /\ ex' = [ex EXCEPT !.pc = "response", !.status = 200]
       \/ /\ \E status \in ErrorStatuses :
                ex' = [ex EXCEPT !.pc = "response", !.status = status]
          /\ UNCHANGED stmts
    /\ UNCHANGED <<nar, relayVars>>

\* result = await response.json(), then the status check, then state =
\* result.get("status", {}).get("state", ""): reading the body fails with
\* an aiohttp.ClientError (ContentTypeError of a body that is not JSON) or
\* with another exception; a body that was read raises the API error if
\* the status is not 200; an answer with status 200 carries the state of
\* the statement (the warehouse holds the answer back for up to
\* wait_timeout) or no state, which reads as ""
SubmitResponse ==
    /\ ex.pc = "response"
    /\ \/ ex' = OnClientError(ex, "submit")
       \/ ex' = OnOtherError(ex)
       \/ /\ ex.status # 200
          /\ ex' = [ex EXCEPT !.pc = "done", !.result = "api_error"]
       \/ /\ ex.status = 200
          /\ \E state \in {stmts[Len(stmts)], ""} :
                ex' = AfterState([ex EXCEPT !.statement_id = Len(stmts),
                                            !.poll_count = 0],
                                 state)
    /\ UNCHANGED <<nar, relayVars, stmts>>

\* await asyncio.sleep(2); poll_count += 1
PollSleep ==
    /\ ex.pc = "poll"
    /\ ex' = [ex EXCEPT !.pc = "poll_get", !.poll_count = @ + 1]
    /\ UNCHANGED <<nar, relayVars, stmts>>

\* session.get(...) for the statement: the request fails, or it is
\* answered; the answer carries the state the statement is in, or, whatever
\* its HTTP status, which is not looked at, no state
Poll ==
    /\ ex.pc = "poll_get"
    /\ \/ ex' = OnClientError(ex, "poll")
       \/ ex' = OnOtherError(ex)
       \/ \E state \in {stmts[ex.statement_id], ""} :
             ex' = [ex EXCEPT !.pc = "poll_response", !.answer = state]
    /\ UNCHANGED <<nar, relayVars, stmts>>

\* result = await poll_response.json(); state = result.get("status",
\* {}).get("state", ""): reading the body fails, or the state of the
\* answer is taken and the loop condition is looked at again
PollResponse ==
    /\ ex.pc = "poll_response"
    /\ \/ ex' = OnClientError(ex, "poll")
       \/ ex' = OnOtherError(ex)
       \/ ex' = AfterState(ex, ex.answer)
    /\ UNCHANGED <<nar, relayVars, stmts>>

\* await asyncio.sleep(delay), then the next attempt; when
\* range(max_retries) is used up the loop ends and `return []` follows
Backoff ==
    /\ ex.pc = "backoff"
    /\ LET e == [ex EXCEPT !.delays = Append(ex.delays, RetryDelay(ex.attempt))]
       IN  ex' = IF ex.attempt + 1 < MaxRetries
                 THEN [e EXCEPT !.pc = "submit", !.attempt = ex.attempt + 1]
                 ELSE [e EXCEPT !.pc = "done", !.result = "empty_list"]
    /\ UNCHANGED <<nar, relayVars, stmts>>

\* the warehouse works on an accepted statement
WarehouseStep(i) ==
    /\ i \in 1..Len(stmts)
    /\ \/ stmts[i] = "PENDING" /\ stmts' = [stmts EXCEPT ![i] = "RUNNING"]
       \/ stmts[i] = "RUNNING"
          /\ \E t \in {"SUCCEEDED", "FAILED", "CANCELED"} :
                stmts' = [stmts EXCEPT ![i] = t]
    /\ UNCHANGED <<nar, relayVars, ex>>

InitExec ==
    /\ NarrativeIdle
    /\ RelayIdle
    /\ quota = 0
    /\ faults = 0
    /\ inflight = <<>>
    /\ wf_available = TRUE
    /\ wf_importable = TRUE
    /\ bc = BroadcastIdle
    /\ storage = TRUE
    /\ db = StoreIdle
    /\ ex \in {NewCall(t) : t \in 0..MaxTimeout}
    /\ stmts = <<>>

NextExec ==
    \/ Submit
    \/ SubmitResponse
    \/ PollSleep
    \/ Poll
    \/ PollResponse
    \/ Backoff
    \/ \E i \in 1..MaxRetries : WarehouseStep(i)

SpecExec == InitExec /\ [][NextExec]_vars

\* the call itself always takes its next step: each request is answered or
\* fails within the client's timeouts and each sleep ends; nothing is
\* assumed of the warehouse, which may leave a statement PENDING or RUNNING
SpecExecLive ==
    /\ SpecExec
    /\ WF_vars(Submit)
    /\ WF_vars(SubmitResponse)
    /\ WF_vars(PollSleep)
    /\ WF_vars(Poll)
    /\ WF_vars(PollResponse)
    /\ WF_vars(Backoff)

\* ------------------------------------------------------------------------
\* ConnectionManager.broadcast and ConnectionManager.send_json
\* ------------------------------------------------------------------------
\* the text broadcast wraps, as the frame the client reads
BroadcastFrame == [type |-> "text", text |-> <<"m">>]

\* the frame a caller hands to send_json
ManagerFrame == [type |-> "notice"]

\* next(iterator) of `for websocket in self.active_connections.values()`:
\* RuntimeError "dictionary changed size during iteration" when the dict
\* does not hold as many keys as when the iterator was made; else the
\* iterator goes to the next slot that is not empty: StopIteration when
\* there is none, RuntimeError "dictionary keys changed during iteration"
\* when there is one and the iterator has returned as many values as the
\* dict held, else the value of the slot
BroadcastAdvance(b, registry) ==
    LET ended == [b EXCEPT !.cur = None, !.target = "none"]
        ahead == {i \in (b.pos + 1)..Len(registry.slots) :
                     registry.slots[i] # Tombstone}
        next  == CHOOSE i \in ahead : \A j \in ahead : i <= j
    IN  IF Cardinality(DictKeys(registry)) # Cardinality(DictKeys(b.start))
        THEN [ended EXCEPT !.pc = "raised", !.error = "dict_changed"]
        ELSE IF ahead = {}
        THEN [ended EXCEPT !.pc = "done"]
        ELSE IF b.left = 0
        THEN [ended EXCEPT !.pc = "raised", !.error = "keys_changed"]
        ELSE [b EXCEPT !.pc = "write", !.cur = registry.slots[next].key,
                       !.target = registry.slots[next].value,
                       !.pos = next, !.left = @ - 1]

\* broadcast(message) is called: the iterator is made and the first
\* send_text is started
BroadcastCall ==
    /\ bc.pc = "idle"
    /\ bc' = BroadcastAdvance(
                 [bc EXCEPT !.start = active_connections, !.pos = 0,
                            !.left = Cardinality(DictKeys(active_connections))],
                 active_connections)
    /\ UNCHANGED <<nar, execVars, pc, loc, out, link, lostAt, quota,
                   active_connections, replaced, storeVars, uuid_next,
                   wf_available, wf_initialized, wf_importable, storage, db>>

\* await websocket.send_text(message) returns or raises; if it returns the
\* loop takes the next value
BroadcastWrite ==
    /\ bc.pc = "write"
    /\ \E so \in SendOutcomes(bc.target) :
          IF so = "raise"
          THEN /\ bc' = [bc EXCEPT !.pc = "raised", !.error = "send_failed"]
               /\ UNCHANGED out
          ELSE /\ out' = [out EXCEPT ![bc.target] =
                             Delivered(bc.target, <<BroadcastFrame>>, so)]
               /\ bc' = BroadcastAdvance(
                             [bc EXCEPT !.visited = @ \cup {bc.cur},
                                        !.sent = IF so = "ok"
                                                 THEN @ \cup {bc.target} ELSE @],
                             active_connections)
    /\ UNCHANGED <<nar, execVars, pc, loc, link, lostAt, quota,
                   active_connections, replaced, storeVars, uuid_next,
                   wf_available, wf_initialized, wf_importable, storage, db>>

\* a send_json that indexes the registry, self.active_connections[session_id],
\* and so raises KeyError for an id without entry
ManagerSendIndexing(session_id) ==
    /\ bc.sends < MaxSends
    /\ bc.send_pc = "idle"
    /\ bc' = IF session_id \in DictKeys(active_connections)
             THEN [bc EXCEPT !.send_pc = "write",
                             !.send_target = DictValue(active_connections, session_id),
                             !.send_result = "none", !.sends = @ + 1,
                             !.send_id = session_id]
             ELSE [bc EXCEPT !.send_result = "raise", !.sends = @ + 1,
                             !.send_id = session_id]
    /\ UNCHANGED <<nar, execVars, pc, loc, out, link, lostAt, quota,
                   active_connections, replaced, storeVars, uuid_next,
                   wf_available, wf_initialized, wf_importable, storage, db>>

\* send_json(session_id, data) is called: websocket =
\* self.active_connections.get(session_id); without a socket the call
\* returns, with one it is suspended in await websocket.send_json(data);
\* send_id keeps the id of the latest call
ManagerSend(session_id) ==
    /\ bc.sends < MaxSends
    /\ bc.send_pc = "idle"
    /\ bc' = IF session_id \in DictKeys(active_connections)
             THEN [bc EXCEPT !.send_pc = "write",
                             !.send_target = DictValue(active_connections, session_id),
                             !.send_result = "none", !.sends = @ + 1,
                             !.send_id = session_id]
             ELSE [bc EXCEPT !.send_result = "no_entry", !.sends = @ + 1,
                             !.send_id = session_id]
    /\ UNCHANGED <<nar, execVars, pc, loc, out, link, lostAt, quota,
                   active_connections, replaced, storeVars, uuid_next,
                   wf_available, wf_initialized, wf_importable, storage, db>>

\* await websocket.send_json(data) on the socket send_json looked up
\* returns or raises, by what that socket's client does at this time
ManagerSendEnd ==
    /\ bc.send_pc = "write"
    /\ \E so \in SendOutcomes(bc.send_target) :
          /\ out' = [out EXCEPT ![bc.send_target] =
                        Delivered(bc.send_target, <<ManagerFrame>>, so)]
          /\ bc' = [bc EXCEPT !.send_pc = "idle", !.send_target = "none",
                              !.send_result = so]
    /\ UNCHANGED <<nar, execVars, pc, loc, link, lostAt, quota,
                   active_connections, replaced, storeVars, uuid_next,
                   wf_available, wf_initialized, wf_importable, storage, db>>

\* connections come and go on /chat/{session_id} and answer pings while the
\* manager is used
InitBroadcast ==
    /\ NarrativeIdle
    /\ RelayIdle
    /\ quota = MaxFrames
    /\ faults = 0
    /\ inflight = <<>>
    /\ ExecIdle
    /\ wf_available = TRUE
    /\ wf_importable = TRUE
    /\ bc = BroadcastIdle
    /\ storage = TRUE
    /\ db = StoreIdle

NextBroadcast ==
    \/ \E c \in Conns :
          \/ \E sid \in SessionIds : ConnectSession(c, sid)
          \/ ResumeLoad(c)
          \/ ReceivePing(c)
          \/ SendPong(c)
          \/ ClientDisconnect(c, {"idle"})
          \/ ReceiveDisconnect(c)
    \/ BroadcastCall
    \/ BroadcastWrite
    \/ \E sid \in SessionIds : ManagerSend(sid)
    \/ ManagerSendEnd

SpecBroadcast == InitBroadcast /\ [][NextBroadcast]_vars

\* ------------------------------------------------------------------------
\* DatabricksStorage: the methods as their callers see them
\* (app/storage/databricks.py; callers: app/routers/sessions.py and the relay)
\* ------------------------------------------------------------------------
\* calls of store methods in one run
MaxCalls == 3

\* highest reading of the clock
MaxClock == 2

\* attempts of statements that fail in a run of the store tasks: enough for
\* one call to use up the attempts of _execute_sql
MaxStoreFaults == 3

StoreIds == {<<"s1">>}

\* arguments of save_session besides the session id: one user without title
\* and with an empty state, another with a title and a state (a dict with
\* the field q) that hold quotes
StoreSaves ==
    {[user_id |-> <<"u1">>, title |-> None, state |-> EmptyDict],
     [user_id |-> <<"u2">>, title |-> <<"t", "'">>,
      state |-> Put(EmptyDict, "q", <<"'", "\"">>)]}

\* the call raised what _execute_sql raised for statement `stmt`
FailureAt(stmt) == [kind |-> "raised", at |-> stmt]

\* get_session as its caller sees it: absence, the row, or the exception
\* json.loads has raised on the state column
GetSession(table, session_id) ==
    IF session_id \notin DOMAIN table THEN Absent
    ELSE IF table[session_id].state # <<>> /\ ~JsonLoadable(table[session_id].state)
    THEN FailureAt("json_loads")
    ELSE RowResult(GetSessionResult(table, session_id))

\* task t is not inside a call and the run has calls left
CanCall(t) == db.task[t].cur.pc \in {"none", "done"} /\ db.calls < MaxCalls

\* a call with its arguments at its first position
NewStoreCall(op, first, session_id) ==
    [NoCall EXCEPT !.op = op, !.pc = first, !.session_id = session_id,
                   !.existed = session_id \in DOMAIN sessions_table,
                   !.result = NoResult]

\* the statements in flight once task t has begun another call: those of
\* its calls so far are statements of a past call
Outlived(t) ==
    [i \in DOMAIN inflight |->
        IF inflight[i].by = t THEN [inflight[i] EXCEPT !.by = "past"]
        ELSE inflight[i]]

\* task t begins `call`
Began(t, call) ==
    [db EXCEPT !.calls = @ + 1,
               !.task[t].prev = db.task[t].cur,
               !.task[t].cur = call,
               !.task[t].late = {}]

\* the store's callers after one step of task t at a statement that writes
\* rows of session_id and came to o: when the warehouse has run the
\* statement the other tasks have seen a write and the call waits for the
\* answer; the answer read, the call goes on to position `next` with
\* `result`; or it stays for the next attempt, or has ended with the
\* exception of _execute_sql at statement `stmt`; `first` says the
\* statement is the first of the call
Attempted(t, session_id, o, first, next, result, stmt) ==
    LET call == db.task[t].cur
        cur == IF o = "ran"
               THEN [call EXCEPT !.answer = Ran]
               ELSE IF o = "ok"
               THEN [call EXCEPT !.pc = next, !.result = result, !.attempt = 0,
                                 !.answer = NoResult]
               ELSE IF Retried(o, call.attempt)
               THEN [call EXCEPT !.attempt = @ + 1, !.answer = NoResult]
               ELSE [call EXCEPT !.pc = "done", !.result = FailureAt(stmt),
                                 !.attempt = 0, !.answer = NoResult]
    IN  [db EXCEPT !.task =
            [u \in Tasks |->
                IF u = t
                THEN [db.task[u] EXCEPT
                         !.cur = cur,
                         !.dirty = IF first /\ call.attempt = 0
                                      /\ call.answer = NoResult
                                   THEN {} ELSE @,
                         !.since_return = IF cur.pc = "done" THEN {} ELSE @]
                ELSE IF Applied(o)
                THEN [db.task[u] EXCEPT !.dirty = @ \cup {session_id},
                                        !.since_return = @ \cup {session_id}]
                ELSE db.task[u]]]

\* the store's callers after one step of task t at a SELECT that came to
\* o: when the warehouse has run it the call waits with `answer`, the
\* result of the rows found; the answer read, the call returns it; or the
\* call stays for the next attempt, or has ended with the exception of
\* _execute_sql
Queried(t, o, answer) ==
    LET call == db.task[t].cur
    IN  [db EXCEPT !.task[t].cur =
            IF o = "ran"
            THEN [call EXCEPT !.answer = answer]
            ELSE IF o = "ok"
            THEN [call EXCEPT !.pc = "done", !.result = call.answer,
                              !.attempt = 0, !.answer = NoResult]
            ELSE IF Retried(o, call.attempt)
            THEN [call EXCEPT !.attempt = @ + 1, !.answer = NoResult]
            ELSE [call EXCEPT !.pc = "done", !.result = FailureAt("execute"),
                              !.attempt = 0, !.answer = NoResult]]

\* time passes
StoreTick ==
    /\ db.clock < MaxClock
    /\ db' = [db EXCEPT !.clock = @ + 1]
    /\ UNCHANGED <<nar, execVars, pc, loc, out, link, lostAt, quota,
                   active_connections, replaced, storeVars, uuid_next,
                   wf_available, wf_initialized, wf_importable, storage, bc>>

\* save_session is called: now = datetime.now(timezone.utc).isoformat()
CallSaveSession(t, session_id, user_id, state, title) ==
    /\ CanCall(t)
    /\ db' = Began(t, [NewStoreCall("save_session", "execute", session_id)
                          EXCEPT !.user_id = user_id, !.state = state,
                                 !.title = title, !.now = db.clock])
    /\ inflight' = Outlived(t)
    /\ UNCHANGED <<nar, execVars, pc, loc, out, link, lostAt, quota,
                   active_connections, replaced, sessions_table, turns_table,
                   faults, uuid_next, wf_available, wf_initialized,
                   wf_importable, storage, bc>>

\* save_session: await self._execute_sql(merge_sql), one attempt: the
\* warehouse runs the MERGE while the call waits for the answer, then the
\* call reads it
ExecSaveSession(t) ==
    /\ db.task[t].cur.op = "save_session"
    /\ db.task[t].cur.pc = "execute"
    /\ \E o \in AttemptOutcomes(db.task[t].cur.answer) :
          LET call == db.task[t].cur
          IN  /\ sessions_table' =
                    IF Applied(o)
                    THEN MergeSessionRow(sessions_table, call.session_id, call.user_id,
                                         call.state, call.title, call.now)
                    ELSE sessions_table
              /\ inflight' = InflightAfter(o, MergeStatement(
                                  t, call.session_id, call.user_id,
                                  call.state, call.title, call.now))
              /\ faults' = FaultsAfter(o)
              /\ db' = Attempted(t, call.session_id, o, TRUE, "done", NoResult,
                                 "execute")
    /\ UNCHANGED <<nar, execVars, pc, loc, out, link, lostAt, quota,
                   active_connections, replaced, turns_table, uuid_next,
                   wf_available, wf_initialized, wf_importable, storage, bc>>

\* save_turn is called
CallSaveTurn(t, session_id, turn_number) ==
    /\ CanCall(t)
    /\ db' = Began(t, [NewStoreCall("save_turn", "execute", session_id)
                          EXCEPT !.turn_number = turn_number, !.now = db.clock])
    /\ inflight' = Outlived(t)
    /\ UNCHANGED <<nar, execVars, pc, loc, out, link, lostAt, quota,
                   active_connections, replaced, sessions_table, turns_table,
                   faults, uuid_next, wf_available, wf_initialized,
                   wf_importable, storage, bc>>

\* save_turn: await self._execute_sql(sql), one attempt: the warehouse runs
\* the INSERT while the call waits for the answer, then the call reads it
ExecSaveTurn(t) ==
    /\ db.task[t].cur.op = "save_turn"
    /\ db.task[t].cur.pc = "execute"
    /\ \E o \in AttemptOutcomes(db.task[t].cur.answer) :
          LET call == db.task[t].cur
          IN  /\ turns_table' =
                    IF Applied(o)
                    THEN InsertTurn(turns_table, call.session_id,
                                    call.turn_number, <<"q">>, <<"r">>)
                    ELSE turns_table
              /\ inflight' = InflightAfter(o, InsertStatement(
                                  t, call.session_id, call.turn_number,
                                  <<"q">>, <<"r">>))
              /\ faults' = FaultsAfter(o)
              /\ db' = Attempted(t, call.session_id, o, TRUE, "done", NoResult,
                                 "execute")
    /\ UNCHANGED <<nar, execVars, pc, loc, out, link, lostAt, quota,
                   active_connections, replaced, sessions_table, uuid_next,
                   wf_available, wf_initialized, wf_importable, storage, bc>>

\* get_session is called
CallGetSession(t, session_id) ==
    /\ CanCall(t)
    /\ db' = Began(t, NewStoreCall("get_session", "execute", session_id))
    /\ inflight' = Outlived(t)
    /\ UNCHANGED <<nar, execVars, pc, loc, out, link, lostAt, quota,
                   active_connections, replaced, sessions_table, turns_table,
                   faults, uuid_next, wf_available, wf_initialized,
                   wf_importable, storage, bc>>

\* get_session: results = await self._execute_sql(sql), one attempt; the
\* call returns None, the dict of the first row, or raises what json.loads
\* raises on the state column
ExecGetSession(t) ==
    /\ db.task[t].cur.op = "get_session"
    /\ db.task[t].cur.pc = "execute"
    /\ \E o \in AttemptOutcomes(db.task[t].cur.answer) :
          /\ faults' = FaultsAfter(o)
          /\ db' = Queried(t, o, GetSession(sessions_table,
                                            db.task[t].cur.session_id))
    /\ UNCHANGED <<nar, execVars, pc, loc, out, link, lostAt, quota,
                   active_connections, replaced, sessions_table, turns_table,
                   inflight, uuid_next, wf_available, wf_initialized,
                   wf_importable, storage, bc>>

\* get_turns without limit is called
CallGetTurns(t, session_id) ==
    /\ CanCall(t)
    /\ db' = Began(t, NewStoreCall("get_turns", "execute", session_id))
    /\ inflight' = Outlived(t)
    /\ UNCHANGED <<nar, execVars, pc, loc, out, link, lostAt, quota,
                   active_connections, replaced, sessions_table, turns_table,
                   faults, uuid_next, wf_available, wf_initialized,
                   wf_importable, storage, bc>>

\* get_turns: results = await self._execute_sql(sql), one attempt; the call
\* returns the dicts of the rows
ExecGetTurns(t) ==
    /\ db.task[t].cur.op = "get_turns"
    /\ db.task[t].cur.pc = "execute"
    /\ \E o \in AttemptOutcomes(db.task[t].cur.answer) :
          /\ faults' = FaultsAfter(o)
          /\ db' = Queried(t, o, RowsResult(GetTurns(turns_table,
                                                     db.task[t].cur.session_id)))
    /\ UNCHANGED <<nar, execVars, pc, loc, out, link, lostAt, quota,
                   active_connections, replaced, sessions_table, turns_table,
                   inflight, uuid_next, wf_available, wf_initialized,
                   wf_importable, storage, bc>>

\* delete_session is called
CallDeleteSession(t, session_id) ==
    /\ CanCall(t)
    /\ db' = Began(t, NewStoreCall("delete_session", "delete_turns", session_id))
    /\ inflight' = Outlived(t)
    /\ UNCHANGED <<nar, execVars, pc, loc, out, link, lostAt, quota,
                   active_connections, replaced, sessions_table, turns_table,
                   faults, uuid_next, wf_available, wf_initialized,
                   wf_importable, storage, bc>>

\* a delete_session that goes on to the session row when the deletion of
\* the turns has raised
ExecDeleteTurnsSwallowing(t) ==
    /\ db.task[t].cur.op = "delete_session"
    /\ db.task[t].cur.pc = "delete_turns"
    /\ \E o \in AttemptOutcomes(db.task[t].cur.answer) :
          LET call == db.task[t].cur
              after == Attempted(t, call.session_id, o, TRUE, "delete_session",
                                 NoResult, "delete_turns")
          IN  /\ turns_table' = IF Applied(o)
                                THEN DeleteTurnRows(turns_table, call.session_id)
                                ELSE turns_table
              /\ inflight' = InflightAfter(o, DeleteStatement(
                                  "DELETE_TURNS", t, call.session_id))
              /\ faults' = FaultsAfter(o)
              /\ db' = IF after.task[t].cur.pc = "done"
                       THEN [after EXCEPT !.task[t].cur.pc = "delete_session",
                                          !.task[t].cur.result = NoResult]
                       ELSE after
    /\ UNCHANGED <<nar, execVars, pc, loc, out, link, lostAt, quota,
                   active_connections, replaced, sessions_table, uuid_next,
                   wf_available, wf_initialized, wf_importable, storage, bc>>

\* delete_session: the DELETE on the turns table, one attempt (the
\* warehouse runs it while the call waits for the answer, then the call
\* reads it); if _execute_sql raises, the exception ends the call
ExecDeleteTurns(t) ==
    /\ db.task[t].cur.op = "delete_session"
    /\ db.task[t].cur.pc = "delete_turns"
    /\ \E o \in AttemptOutcomes(db.task[t].cur.answer) :
          LET call == db.task[t].cur
          IN  /\ turns_table' = IF Applied(o)
                                THEN DeleteTurnRows(turns_table, call.session_id)
                                ELSE turns_table
              /\ inflight' = InflightAfter(o, DeleteStatement(
                                  "DELETE_TURNS", t, call.session_id))
              /\ faults' = FaultsAfter(o)
              /\ db' = Attempted(t, call.session_id, o, TRUE, "delete_session",
                                 NoResult, "delete_turns")
    /\ UNCHANGED <<nar, execVars, pc, loc, out, link, lostAt, quota,
                   active_connections, replaced, sessions_table, uuid_next,
                   wf_available, wf_initialized, wf_importable, storage, bc>>

\* delete_session: the DELETE on the sessions table, one attempt (the
\* warehouse runs it while the call waits for the answer, then the call
\* reads it); return True
ExecDeleteSession(t) ==
    /\ db.task[t].cur.op = "delete_session"
    /\ db.task[t].cur.pc = "delete_session"
    /\ \E o \in AttemptOutcomes(db.task[t].cur.answer) :
          LET call == db.task[t].cur
          IN  /\ sessions_table' =
                    IF Applied(o)
                    THEN DeleteSessionRow(sessions_table, call.session_id)
                    ELSE sessions_table
              /\ inflight' = InflightAfter(o, DeleteStatement(
                                  "DELETE_SESSION", t, call.session_id))
              /\ faults' = FaultsAfter(o)
              /\ db' = Attempted(t, call.session_id, o, FALSE, "done",
                                 BoolResult(TRUE), "delete_session")
    /\ UNCHANGED <<nar, execVars, pc, loc, out, link, lostAt, quota,
                   active_connections, replaced, turns_table, uuid_next,
                   wf_available, wf_initialized, wf_importable, storage, bc>>

\* task t1 calls the methods of the store for one session while task t2, a
\* chat turn being persisted, writes to it
InitStore ==
    /\ NarrativeIdle
    /\ RelayIdle
    /\ quota = 0
    /\ faults = 0
    /\ inflight = <<>>
    /\ ExecIdle
    /\ wf_available = TRUE
    /\ wf_importable = TRUE
    /\ bc = BroadcastIdle
    /\ storage = TRUE
    /\ db = StoreIdle

NextStore ==
    \/ StoreTick
    \/ \E t \in Tasks, sid \in StoreIds :
          \/ \E a \in StoreSaves :
                CallSaveSession(t, sid, a.user_id, a.state, a.title)
          \/ CallSaveTurn(t, sid, 1)
    \/ \E t \in Tasks : ExecSaveSession(t) \/ ExecSaveTurn(t)
    \/ \E sid \in StoreIds :
          \/ CallGetSession("t1", sid)
          \/ CallGetTurns("t1", sid)
          \/ CallDeleteSession("t1", sid)
    \/ ExecGetSession("t1")
    \/ ExecGetTurns("t1")
    \/ ExecDeleteTurns("t1")
    \/ ExecDeleteSession("t1")

SpecStore == InitStore /\ [][NextStore]_vars

\* the sessions list_sessions is called on: four of user u1, one of user u2
ListOwners ==
    (<<"s1">> :> <<"u1">>) @@ (<<"s2">> :> <<"u1">>) @@ (<<"s3">> :> <<"u1">>)
    @@ (<<"s4">> :> <<"u1">>) @@ (<<"s5">> :> <<"u2">>)

ListUsers == {<<"u1">>, <<"u2">>}

\* readings of the clock the saves can have taken: enough of them for the
\* four sessions of a user to be saved at four different times
ListTimes == 0..(MaxClock + 1)

\* the sessions table after one save_session per session, the call for
\* session sid having read the clock at saved_at[sid]
SavedSessions(saved_at) ==
    [sid \in DOMAIN saved_at |->
        MergeSessionRow(EmptyDict, sid, ListOwners[sid], EmptyDict, None,
                        saved_at[sid])[sid]]

\* WHERE user_id = '{user_id}'
SessionsOfUser(table, user_id) ==
    {sid \in DOMAIN table : table[sid].user_id = user_id}

\* ORDER BY updated_at DESC: every order of the ids in which updated_at
\* never increases; rows with the same updated_at come in any order, and
\* not in the same one from one execution of the statement to the next
OrdersByUpdatedAt(table, ids) ==
    {o \in [1..Cardinality(ids) -> ids] :
        /\ \A i, j \in DOMAIN o : i # j => o[i] # o[j]
        /\ \A i, j \in DOMAIN o :
              i < j => table[o[i]].updated_at >= table[o[j]].updated_at}

\* LIMIT {limit} OFFSET {offset}
LimitOffset(rows, limit, offset) ==
    SubSeq(rows, offset + 1,
           IF offset + limit < Len(rows) THEN offset + limit ELSE Len(rows))

\* the dict list_sessions builds of a row
ListedRow(table, sid) ==
    [session_id |-> sid,
     user_id    |-> table[sid].user_id,
     title      |-> table[sid].title,
     created_at |-> table[sid].created_at,
     updated_at |-> table[sid].updated_at]

\* the results list_sessions can return
ListSessions(table, user_id, limit, offset) ==
    {LimitOffset([i \in DOMAIN o |-> ListedRow(table, o[i])], limit, offset) :
        o \in OrdersByUpdatedAt(table, SessionsOfUser(table, user_id))}

\* list_sessions is called
CallListSessions(t, user_id, limit, offset) ==
    /\ CanCall(t)
    /\ db' = Began(t, [NewStoreCall("list_sessions", "execute", None)
                          EXCEPT !.user_id = user_id, !.limit = limit,
                                 !.offset = offset])
    /\ inflight' = Outlived(t)
    /\ UNCHANGED <<nar, execVars, pc, loc, out, link, lostAt, quota,
                   active_connections, replaced, sessions_table, turns_table,
                   faults, uuid_next, wf_available, wf_initialized,
                   wf_importable, storage, bc>>

\* list_sessions: results = await self._execute_sql(sql), one attempt; the
\* call returns the dicts of the rows in the order the warehouse gave them
ExecListSessions(t) ==
    /\ db.task[t].cur.op = "list_sessions"
    /\ db.task[t].cur.pc = "execute"
    /\ LET call == db.task[t].cur
       IN  \E o \in AttemptOutcomes(call.answer) :
              /\ faults' = FaultsAfter(o)
              /\ \E rows \in (IF o = "ran"
                               THEN ListSessions(sessions_table, call.user_id,
                                                 call.limit, call.offset)
                               ELSE {<<>>}) :
                    db' = Queried(t, o, RowsResult(rows))
    /\ UNCHANGED <<nar, execVars, pc, loc, out, link, lostAt, quota,
                   active_connections, replaced, sessions_table, turns_table,
                   inflight, uuid_next, wf_available, wf_initialized,
                   wf_importable, storage, bc>>

\* a store with five saved sessions, read page by page by one task; nothing
\* writes to it
InitList ==
    /\ NarrativeIdle
    /\ pc = [c \in Conns |-> "new"]
    /\ loc = [c \in Conns |-> NewLocals]
    /\ out = [c \in Conns |-> <<>>]
    /\ link = [c \in Conns |-> "up"]
    /\ lostAt = [c \in Conns |-> "none"]
    /\ active_connections = NewDict
    /\ replaced = {}
    /\ sessions_table \in
          {SavedSessions(saved_at) : saved_at \in [DOMAIN ListOwners -> ListTimes]}
    /\ turns_table = <<>>
    /\ uuid_next = 0
    /\ wf_initialized = FALSE
    /\ quota = 0
    /\ faults = 0
    /\ inflight = <<>>
    /\ ExecIdle
    /\ wf_available = TRUE
    /\ wf_importable = TRUE
    /\ bc = BroadcastIdle
    /\ storage = TRUE
    /\ db = StoreIdle

NextList ==
    \/ \E u \in ListUsers, offset \in {0, 2} : CallListSessions("t1", u, 2, offset)
    \/ ExecListSessions("t1")

SpecList == InitList /\ [][NextList]_vars

\* task t1 deletes a session that earlier turns have stored, attempts of
\* its statements may fail, and task t2, a chat turn being persisted, may write
\* to the session meanwhile
InitDelete ==
    /\ NarrativeIdle
    /\ pc = [c \in Conns |-> "new"]
    /\ loc = [c \in Conns |-> NewLocals]
    /\ out = [c \in Conns |-> <<>>]
    /\ link = [c \in Conns |-> "up"]
    /\ lostAt = [c \in Conns |-> "none"]
    /\ active_connections = NewDict
    /\ replaced = {}
    /\ sessions_table \in
          {SavedSessions([sid \in ids |-> 0]) : ids \in SUBSET StoreIds}
    /\ \E n1 \in StoredTurnNumbers, n2 \in {<<>>, <<1>>} :
          turns_table = TurnsTableOf(<<"s2">>, n2) \o TurnsTableOf(<<"s1">>, n1)
    /\ uuid_next = 0
    /\ wf_initialized = FALSE
    /\ quota = 0
    /\ faults = MaxStoreFaults
    /\ inflight = <<>>
    /\ ExecIdle
    /\ wf_available = TRUE
    /\ wf_importable = TRUE
    /\ bc = BroadcastIdle
    /\ storage = TRUE
    /\ db = StoreIdle

NextDelete ==
    \/ \E sid \in StoreIds :
          \/ CallDeleteSession("t1", sid)
          \/ CallSaveTurn("t2", sid, 1)
          \/ CallSaveSession("t2", sid, <<"u1">>, EmptyDict, None)
    \/ ExecDeleteTurns("t1")
    \/ ExecDeleteSession("t1")
    \/ ExecSaveTurn("t2")
    \/ ExecSaveSession("t2")
    \/ \E i \in DOMAIN inflight : WarehouseRuns(i)

SpecDelete == InitDelete /\ [][NextDelete]_vars

\* ------------------------------------------------------------------------
\* Properties
\* ------------------------------------------------------------------------
FrameTypes(frames) == {frames[i].type : i \in 1..Len(frames)}

HasStreamDone(frames) ==
    \E i \in 1..Len(frames) : frames[i].type = "stream" /\ frames[i].done

\* the error texts of error events of the workflow
WorkflowErrors == {"workflow failed", "Workflow not initialized. Check server logs."}

HasWorkflowError(frames) ==
    \E i \in 1..Len(frames) :
        frames[i].type = "error" /\ frames[i].error \in WorkflowErrors

TurnNumbersOf(session_id) ==
    LET rows == RowsOf(turns_table, session_id)
    IN  [i \in 1..Len(rows) |-> rows[i].turn_number]

StoredSessionIds == {turns_table[i].session_id : i \in 1..Len(turns_table)}

\* C1: one session served by one connection at a time, working store: when
\* no turn is in flight, the persisted turns of a session carry exactly the
\* turn numbers 1..N, N the number of messages handled, without gap or
\* repeat.  (Here one connection is open in the whole run and no statement
\* fails, so every handled message has written one row.)
C1_TurnNumbersAreOneToN ==
    (pc["c2"] = "new" /\ pc["c1"] \in {"idle", "ended"}) =>
        \A s \in StoredSessionIds :
            LET tn == TurnNumbersOf(s)
            IN  /\ {tn[i] : i \in 1..Len(tn)} = 1..Len(tn)
                /\ \A i, j \in 1..Len(tn) : tn[i] = tn[j] => i = j

\* C3: when the event sequence of a turn contains an error event, the error
\* frame ends the turn: no stream frame with done=true, no complete frame,
\* and no step towards the turn and session writes.
C3_ErrorEventEndsTurn ==
    \A c \in Conns :
        HasWorkflowError(out[c]) =>
            /\ ~HasStreamDone(out[c])
            /\ "complete" \notin FrameTypes(out[c])
            /\ pc[c] \notin {"complete", "save_turn", "save_session"}

\* the clarification type the final state asks for, "none" if it carries a
\* greeting or no clarification field
ClarificationOf(final_state) ==
    IF Truthy(final_state, "greeting_response") THEN "none"
    ELSE IF Truthy(final_state, "domain_followup_question") THEN "domain"
    ELSE IF Truthy(final_state, "dataset_followup_question") THEN "dataset"
    ELSE IF Truthy(final_state, "sql_followup_question") THEN "sql"
    ELSE "none"

\* the turn of c has received workflow_end and is not over
AfterWorkflowEnd(c) ==
    /\ pc[c] \in {"run", "stream", "complete", "save_turn", "save_session"}
    /\ loc[c].wf.pos = "end"

\* C4: when the final state of workflow_end carries a domain, dataset or sql
\* clarification field and no greeting, the client gets a clarification
\* frame of that type and no complete frame for the turn.
C4_ClarificationInsteadOfComplete ==
    \A c \in Conns :
        (AfterWorkflowEnd(c) /\ link[c] = "up"
            /\ ClarificationOf(loc[c].final_state) # "none") =>
            /\ \E i \in 1..Len(out[c]) :
                  /\ out[c][i].type = "clarification"
                  /\ out[c][i].clarification_type = ClarificationOf(loc[c].final_state)
            /\ "complete" \notin FrameTypes(out[c])

\* C4, amended: when the final state of workflow_end carries a domain,
\* dataset or sql clarification field and no greeting, the client gets a
\* clarification frame of that type with the field's text, and the turn is
\* then completed like any other: the complete frame that follows carries
\* the clarification text as its response.
C4_ClarificationThenComplete ==
    \A c \in Conns :
        (AfterWorkflowEnd(c) /\ link[c] = "up"
            /\ ClarificationOf(loc[c].final_state) # "none") =>
            \E i \in 1..Len(out[c]) :
                /\ out[c][i].type = "clarification"
                /\ out[c][i].clarification_type = ClarificationOf(loc[c].final_state)
                /\ pc[c] \in {"save_turn", "save_session"} =>
                      \E j \in (i + 1)..Len(out[c]) :
                          /\ out[c][j].type = "complete"
                          /\ out[c][j].response = out[c][i].message

\* a turn that asked for a dataset clarification has sent its complete frame
C4_Witness ==
    \E c \in Conns :
        /\ AfterWorkflowEnd(c)
        /\ link[c] = "up"
        /\ ClarificationOf(loc[c].final_state) = "dataset"
        /\ pc[c] = "save_turn"
        /\ "complete" \in FrameTypes(out[c])

\* C5: if the client disconnects while a turn is running, the turn and the
\* session are persisted all the same (no store statement failing).
C5_DisconnectedTurnIsPersisted ==
    \A c \in Conns :
        (lostAt[c] \in {"run", "stream"} /\ pc[c] = "ended" /\ faults = MaxFaults) =>
            /\ loc[c].session_id \in StoredSessionIds
            /\ loc[c].session_id \in DOMAIN sessions_table

\* C7: once the title of a session is non-empty, no save_session changes it.
C7_TitleImmutableOnceSet ==
    [][\A s \in DOMAIN sessions_table :
          sessions_table[s].title # <<>> =>
              /\ s \in DOMAIN sessions_table'
              /\ sessions_table'[s].title = sessions_table[s].title]_vars

\* C8: a malformed inbound frame is answered with an error frame, and the
\* connection stays open for the next frame.
C8_MalformedFrameReported ==
    \A c \in Conns :
        (loc[c].inbound \in {"bad_json", "non_object", "bad_question"}
            /\ link[c] = "up") =>
            /\ pc[c] # "ended"
            /\ "error" \in FrameTypes(out[c])

\* C9: once the handler of a connection has ended, no registry entry maps
\* to that connection.
C9_EndedConnectionUnregistered ==
    \A c \in Conns :
        pc[c] = "ended" =>
            \A s \in DictKeys(active_connections) : DictValue(active_connections, s) # c

\* C10: once the registry entry of a connection has been overwritten by a
\* second connection, no frame is written to the first connection any more.
C10_ReplacedChannelGetsNothing ==
    [][\A c \in replaced : Len(out'[c]) <= Len(out[c])]_vars

\* C6: a network failure during polling is not retried: the call raises to
\* its caller and the statement is not submitted again.
C6_PollFailureNotRetried ==
    ex.caught = "poll" => (ex.pc = "done" /\ ex.result = "client_error")

\* the channels registered when broadcast was called whose entry is still
\* the same
StayedRegistered ==
    {s \in DictKeys(bc.start) :
        s \in DictKeys(active_connections) /\ DictValue(active_connections, s) = DictValue(bc.start, s)}

\* C11: broadcast is best effort: a failing write to one channel does not
\* fail the broadcast, and when it ends every channel that is still
\* registered and connected has been written.
C11_BroadcastIsBestEffort ==
    /\ bc.error # "send_failed"
    /\ bc.pc \in {"done", "raised"} =>
          \A s \in StayedRegistered :
              link[DictValue(bc.start, s)] = "up" => DictValue(bc.start, s) \in bc.sent

\* C12: registry operations of other tasks interleaved with a suspended
\* broadcast never make it fault, and it reaches every channel whose entry
\* stayed registered throughout.
C12_ManagerSafeUnderInterleaving ==
    /\ bc.error \notin {"dict_changed", "keys_changed"}
    /\ bc.pc = "done" => \A s \in StayedRegistered : s \in bc.visited

\* C16: the turn_number of the complete frame is the number of turns already
\* persisted for the session plus one, and is the number the turn is written
\* under, on the workflow path and on the placeholder path.  (Stated for
\* /chat, where the state is loaded per message, while no statement of the
\* store has failed, and at the point where the complete frame is sent and
\* the INSERT of the turn has not run.)
C16_CompleteCarriesNextTurnNumber ==
    \A c \in Conns :
        (pc[c] = "save_turn" /\ loc[c].answer = NoResult /\ link[c] = "up"
            /\ loc[c].endpoint = "chat" /\ faults = MaxFaults) =>
            LET f == out[c][Len(out[c])]
            IN  /\ f.type = "complete"
                /\ f.turn_number = Len(RowsOf(turns_table, loc[c].session_id)) + 1
                /\ f.turn_number = loc[c].turn_number

\* positions of a handler inside stream_response_workflow, after its
\* initial status frame
InWorkflowTurn(c) ==
    pc[c] \in {"run", "stream", "complete", "save_turn", "save_session"}

\* the run_workflow generator of c's turn has yielded workflow_start
WorkflowStarted(c) == wf_initialized /\ loc[c].wf.pos # "start"

IsStarted(f) == f.type = "status" /\ f.status = "started"

\* the status frame sent before the workflow is run
IsInitialStatus(f) ==
    f.type = "status" /\ f.status = "processing" /\ "node" \notin DOMAIN f

\* the status frame of a completed node
IsNodeStatus(f) ==
    f.type = "status" /\ f.status = "processing" /\ "node" \in DOMAIN f

\* C13: for a message whose workflow runs, the first outbound frame of the
\* turn is the status frame with status=started.
C13_StartedIsFirstFrame ==
    \A c \in Conns :
        (InWorkflowTurn(c) /\ WorkflowStarted(c) /\ link[c] = "up") =>
            /\ out[c] # <<>>
            /\ IsStarted(out[c][1])
            /\ \A i \in 1..Len(out[c]) :
                  (out[c][i].type = "stream" \/ IsInitialStatus(out[c][i])
                      \/ IsNodeStatus(out[c][i])) => i > 1

\* C13, amended: the first outbound frame of the turn is the status frame
\* with status=processing sent before the workflow is run; when the workflow
\* runs the status=started frame is the second frame, and every node status
\* frame and every stream frame of the turn comes after it.
C13_ProcessingThenStarted ==
    \A c \in Conns :
        (InWorkflowTurn(c) /\ link[c] = "up") =>
            /\ out[c] # <<>>
            /\ IsInitialStatus(out[c][1])
            /\ WorkflowStarted(c) => (Len(out[c]) >= 2 /\ IsStarted(out[c][2]))
            /\ \A i \in 1..Len(out[c]) :
                  /\ IsStarted(out[c][i]) => i = 2
                  /\ (i > 1 /\ IsInitialStatus(out[c][i])) => FALSE
                  /\ (out[c][i].type = "stream" \/ IsNodeStatus(out[c][i])) => i > 2

\* a turn whose workflow ran has sent node status and stream frames
C13_Witness ==
    \E c \in Conns :
        /\ pc[c] = "complete"
        /\ link[c] = "up"
        /\ WorkflowStarted(c)
        /\ \E i, j \in 3..Len(out[c]) :
              /\ IsNodeStatus(out[c][i])
              /\ out[c][j].type = "stream" /\ ~out[c][j].done

\* the turn of the last message of c has sent its complete frame and no
\* error frame of the workflow
CompletedWithoutError(c) ==
    /\ loc[c].inbound = "message"
    /\ "complete" \in FrameTypes(out[c])
    /\ ~HasWorkflowError(out[c])

\* C14: a turn that completes without an error event has exactly one stream
\* frame with done=true; it has an empty token, comes after every other
\* stream frame, and is directly followed by the one complete frame, which
\* is the last frame of the turn.
C14_DoneThenCompleteEndTheTurn ==
    \A c \in Conns :
        CompletedWithoutError(c) =>
            LET n == Len(out[c])
            IN  /\ n >= 2
                /\ out[c][n].type = "complete"
                /\ out[c][n - 1] = StreamFrame(<<>>, TRUE)
                /\ \A i \in 1..(n - 2) :
                      /\ out[c][i].type # "complete"
                      /\ out[c][i].type = "stream" => ~out[c][i].done

\* a turn with streamed tokens has completed and the handler is back in
\* receive_json
C14_Witness ==
    \E c \in Conns :
        /\ CompletedWithoutError(c)
        /\ pc[c] = "idle"
        /\ StreamTokens(out[c]) # <<>>

\* C15: for a turn that completes without an error event, the response of
\* the complete frame is the concatenation of the tokens of the stream
\* frames of the turn.
C15_ResponseIsStreamedText ==
    \A c \in Conns :
        CompletedWithoutError(c) =>
            out[c][Len(out[c])].response = Concat(StreamTokens(out[c]))

\* C17: a connection takes its next inbound frame only when the handling of
\* the previous one, its writes to the store included, is over.
C17_FramesHandledOneAtATime ==
    [][\A c \in Conns :
          (quota' < quota /\ (pc'[c] # pc[c] \/ loc'[c] # loc[c])) =>
              /\ pc[c] = "idle"
              /\ loc[c].wf = WfNew
              /\ loc[c].turn_number = 0]_vars

\* a second message is handled after the turn of the first was persisted
C17_Witness ==
    \E c \in Conns :
        /\ quota <= MaxFrames - 2
        /\ pc[c] = "save_turn"
        /\ turns_table # <<>>

\* C18: a failure of the workflow is reported as an error frame and does
\* not end the handler: the connection stays registered and goes back to
\* waiting for the next frame.
C18_WorkflowErrorKeepsConnection ==
    \A c \in Conns :
        (HasWorkflowError(out[c]) /\ link[c] = "up") =>
            /\ pc[c] \in {"run", "stream", "complete", "save_turn", "save_session",
                        "idle"}
            /\ loc[c].session_id \in DictKeys(active_connections)
            /\ DictValue(active_connections, loc[c].session_id) = c

\* after a turn with a workflow error the handler waits for the next frame
C18_Witness ==
    \E c \in Conns :
        /\ HasWorkflowError(out[c])
        /\ link[c] = "up"
        /\ CanReceive(c)
        /\ turns_table # <<>>

\* C19: when save_turn or save_session fails, no frame is sent for it, the
\* frames already sent stay as they are, and the handler goes back to
\* waiting for the next frame.  (An attempt of the statement that fails
\* either is followed by the next attempt of the same call, or the call has
\* failed and the handler waits again.)
C19_SaveFailureIsSilent ==
    [][\A c \in Conns :
          (pc[c] \in {"save_turn", "save_session"} /\ faults' < faults) =>
              /\ out'[c] = out[c]
              /\ link'[c] = link[c]
              /\ \/ pc'[c] = "idle"
                 \/ /\ pc'[c] = pc[c]
                    /\ loc'[c].attempt = loc[c].attempt + 1
                    /\ loc'[c].attempt < MaxRetries]_vars

\* a turn was completed, its save_turn failed, and the handler waits again
C19_Witness ==
    \E c \in Conns :
        /\ pc[c] = "idle"
        /\ loc[c].inbound = "message"
        /\ "complete" \in FrameTypes(out[c])
        /\ turns_table = <<>>
        /\ faults < MaxFaults

RejectFrame == [type |-> "error", error |-> "Question cannot be empty"]

\* C20: a message whose question is empty or only whitespace is answered by
\* exactly one frame, the error frame "Question cannot be empty"; the
\* registry, the store and the workflow are not touched, no question made
\* of whitespace starts a turn, and the handler waits for the next frame.
C20_EmptyQuestionRejected ==
    [][\A c \in Conns :
          /\ (quota' < quota /\ loc'[c].inbound = "message"
                /\ \A i \in 1..Len(loc'[c].question) :
                      loc'[c].question[i] \in Whitespace) =>
                (/\ pc'[c] = "reject"
                 /\ out'[c] = <<>>
                 /\ UNCHANGED <<active_connections, sessions_table, turns_table,
                                wf_initialized>>)
          /\ (pc[c] = "reject" /\ pc'[c] # "reject" /\ link[c] = "up") =>
                (/\ pc'[c] = "idle"
                 /\ out'[c] = <<RejectFrame>>
                 /\ UNCHANGED <<active_connections, sessions_table, turns_table,
                                wf_initialized>>)]_vars

\* a whitespace-only question was rejected
C20_Witness ==
    \E c \in Conns :
        /\ pc[c] = "idle"
        /\ loc[c].inbound = "message"
        /\ loc[c].question = <<>>
        /\ out[c] = <<RejectFrame>>


\* task t has just got the result of get_session(id), its call before that
\* was save_session(id, ...), and no other task has written to id since that
\* call's statement
GotAfterSave(t) ==
    /\ db.task[t].cur.op = "get_session"
    /\ db.task[t].cur.pc = "done"
    /\ db.task[t].prev.op = "save_session"
    /\ db.task[t].prev.session_id = db.task[t].cur.session_id
    /\ db.task[t].cur.session_id \notin db.task[t].dirty

\* C21: for every session id, new or already stored, save_session(id,
\* user_id, state, title) followed by get_session(id) with no write in
\* between returns that user_id, that title and that state.
C21_SaveThenGetRoundTrips ==
    \A t \in Tasks :
        GotAfterSave(t) =>
            /\ db.task[t].cur.result.kind = "row"
            /\ db.task[t].cur.result.row.user_id = db.task[t].prev.user_id
            /\ db.task[t].cur.result.row.title = db.task[t].prev.title
            /\ db.task[t].cur.result.row.state = db.task[t].prev.state

\* C22: delete_session(id) returns true when a session row for id existed
\* before the call and false when none existed.
C22_DeleteReportsExistence ==
    \A t \in Tasks :
        db.task[t].cur.op = "delete_session" /\ db.task[t].cur.pc = "done" =>
            db.task[t].cur.result.value = db.task[t].cur.existed

\* task t has just got the result of a read of id and its call before that
\* was delete_session(id), which has returned
ReadAfterDelete(t) ==
    /\ db.task[t].cur.op \in {"get_turns", "get_session"}
    /\ db.task[t].cur.pc = "done"
    /\ db.task[t].prev.op = "delete_session"
    /\ db.task[t].prev.result.kind = "bool"
    /\ db.task[t].prev.session_id = db.task[t].cur.session_id

\* the read of task t has found nothing of the session
ReadNothing(t) ==
    /\ db.task[t].cur.op = "get_turns" =>
          db.task[t].cur.result = RowsResult(<<>>)
    /\ db.task[t].cur.op = "get_session" =>
          db.task[t].cur.result = Absent

\* C23: after delete_session(id) returns, get_turns(id) returns an empty
\* sequence and get_session(id) returns absence, provided no write for id
\* happens in between, that is between the return of delete_session and the
\* read.
C23_DeletedSessionIsGone ==
    \A t \in Tasks :
        (/\ ReadAfterDelete(t)
         /\ db.task[t].cur.session_id \notin db.task[t].since_return) =>
            ReadNothing(t)

\* C23, with the proviso it needs: after delete_session(id) returns,
\* get_turns(id) returns an empty sequence and get_session(id) returns
\* absence, provided no write for id by others takes effect between the
\* first statement of delete_session and the read.
C23_DeletedSessionIsGoneUnlessWrittenDuring ==
    \A t \in Tasks :
        (/\ ReadAfterDelete(t)
         /\ db.task[t].cur.session_id \notin db.task[t].dirty) =>
            ReadNothing(t)

\* a session that had a row was deleted while the other task wrote nothing,
\* and get_session was then called for it
C23_Witness ==
    /\ ReadAfterDelete("t1")
    /\ db.task["t1"].cur.session_id \notin db.task["t1"].dirty
    /\ db.task["t1"].cur.op = "get_session"
    /\ db.task["t1"].prev.existed
    /\ db.task["t2"].cur.op = "none"

\* C24: for each session, the stored updated_at never decreases from one
\* effective write to the next, including when two save_session calls for
\* the same id issued by different tasks overlap (each call takes its
\* timestamp before its statement executes).
C24_UpdatedAtNeverDecreases ==
    [][\A id \in DOMAIN sessions_table \cap DOMAIN sessions_table' :
          sessions_table'[id].updated_at >= sessions_table[id].updated_at]_vars

\* the session state as last persisted for session_id, empty if there is none
PersistedState(session_id) ==
    IF SessionExists(sessions_table, session_id)
    THEN SessionState(sessions_table, session_id)
    ELSE EmptyDict

\* C25: for every non-empty message, the state handed to the workflow is the
\* session state as last persisted for that session id (empty if there is
\* none) with current_question, user_question, session_id and user_id
\* overwritten; this holds also for the second and later messages on one
\* /chat/{session_id} connection.  (Stated for a store that is there and has
\* not failed.)
C25_WorkflowGetsPersistedState ==
    \A c \in Conns :
        pc[c] = "run" /\ storage /\ faults = MaxFaults =>
            loc[c].state = StateUpdate(PersistedState(loc[c].session_id),
                                       loc[c].question, loc[c].session_id,
                                       loc[c].user_id)

\* states of a statement the warehouse does not leave
TerminalStates == {"SUCCEEDED", "FAILED", "CANCELED"}

\* the states an answer can carry on which the polling loop ends whatever
\* the poll budget: the terminal ones and "", which an answer without
\* status.state reads as
EndStates == TerminalStates \cup {""}

\* C26: once the submission or a poll has answered with a terminal state
\* (or with no state at all), _execute_sql ends at once: it returns the rows
\* exactly when the state is SUCCEEDED, raises the execution failure when it
\* is FAILED and the unexpected-state error for any other state; no further
\* attempt, back-off or step follows.
C26_TerminalStateEndsTheCall ==
    [][/\ ex.state \notin EndStates /\ ex'.state \in EndStates =>
             /\ ex'.pc = "done"
             /\ ex'.result = "rows" <=> ex'.state = "SUCCEEDED"
             /\ ex'.result = "execution_failed" <=> ex'.state = "FAILED"
             /\ ex'.result = "unexpected_state" <=>
                   ex'.state \notin {"SUCCEEDED", "FAILED"}
             /\ ex'.attempt = ex.attempt
             /\ ex'.delays = ex.delays
       /\ ex.pc = "done" => ex' = ex]_vars

\* a call whose statement failed while it was being polled has raised the
\* execution failure
C26_Witness ==
    /\ ex.pc = "done"
    /\ ex.state = "FAILED"
    /\ ex.result = "execution_failed"
    /\ ex.poll_count > 0

\* the first special field the final state carries, in the priority order
FirstSpecial(final_state) ==
    LET present == {i \in 1..Len(SpecialFields) :
                       Truthy(final_state, SpecialFields[i])}
    IN  IF present = {} THEN "none"
        ELSE SpecialFields[CHOOSE i \in present : \A j \in present : i <= j]

\* the clarification type that goes with a clarification field
KindOfField(field) ==
    CASE field = "domain_followup_question"  -> "domain"
      [] field = "dataset_followup_question" -> "dataset"
      [] field = "sql_followup_question"     -> "sql"

\* the frames c was sent in this step
SentInStep(c) == SubSeq(out'[c], Len(out[c]) + 1, Len(out'[c]))

\* C27: on workflow_end the relay acts on exactly one special field of the
\* final state, the first one present in the order greeting_response,
\* domain_followup_question, dataset_followup_question,
\* sql_followup_question: a greeting is streamed as tokens and no
\* clarification frame is sent even when clarification fields are also
\* present; a clarification field gives the one clarification frame of its
\* type; with none present no extra frame is sent.
\* (The token of the first word of a greeting is sent in the step that
\* relays workflow_end and the tokens of its other words follow one by one;
\* stated for a client that is there.)
C27_FirstSpecialFieldDecides ==
    [][\A c \in Conns :
          /\ (pc[c] = "run" /\ loc[c].wf.pos = "events" /\ loc'[c].wf.pos = "end"
                /\ link[c] = "up") =>
               LET final_state == loc'[c].final_state
                   first == FirstSpecial(final_state)
                   sent == SentInStep(c)
                   frames == sent \o loc'[c].tokens
               IN  /\ first = "none" => frames = <<>>
                   /\ first = "greeting_response" =>
                         /\ Len(sent) = 1
                         /\ FrameTypes(frames) = {"stream"}
                         /\ ~HasStreamDone(frames)
                         /\ Concat(StreamTokens(frames)) =
                               NormaliseFrom(final_state[first], 1)
                   /\ first \notin {"none", "greeting_response"} =>
                         frames = <<ClarificationFrame(KindOfField(first),
                                                       final_state[first])>>
          /\ (pc[c] = "stream" /\ loc'[c] # loc[c] /\ link[c] = "up") =>
                /\ SentInStep(c) = <<Head(loc[c].tokens)>>
                /\ loc'[c].tokens = Tail(loc[c].tokens)
                /\ loc'[c].final_state = loc[c].final_state
                /\ pc'[c] = (IF loc'[c].tokens = <<>> THEN "run" ELSE "stream")
          /\ (pc[c] = "run" /\ loc[c].wf.pos = "end" /\ pc'[c] # "run"
                /\ link[c] = "up") =>
                SentInStep(c) = <<StreamFrame(<<>>, TRUE)>>]_vars

\* a final state with a greeting and a domain clarification was relayed: the
\* greeting was streamed and no clarification frame sent
C27_Witness ==
    \E c \in Conns :
        /\ AfterWorkflowEnd(c)
        /\ link[c] = "up"
        /\ Truthy(loc[c].final_state, "greeting_response")
        /\ Truthy(loc[c].final_state, "domain_followup_question")
        /\ "stream" \in FrameTypes(out[c])
        /\ "clarification" \notin FrameTypes(out[c])

\* the handler of c is back at receive_json after the turn of a message with
\* a question, and the client is there
TurnOver(c) ==
    /\ pc[c] = "idle"
    /\ loc[c].inbound = "message"
    /\ loc[c].question # <<>>
    /\ link[c] = "up"

\* C28: when the store is absent, or get_session fails while loading, a
\* valid message is still processed with empty prior state and ends with a
\* complete frame; no error frame is sent on account of the store (the only
\* error frames of such a turn are those of the workflow's error events).
C28_TurnGoesOnWithoutStore ==
    \A c \in Conns :
        /\ (pc[c] \in Positions \ {"resume_load", "resume_turns", "load"}
               /\ loc[c].inbound = "message" /\ loc[c].question # <<>>
               /\ loc[c].loaded \in {"absent", "failed"}) =>
              /\ loc[c].state = StateUpdate(EmptyDict, loc[c].question,
                                            loc[c].session_id, loc[c].user_id)
              /\ \A i \in 1..Len(out[c]) :
                    out[c][i].type = "error" => out[c][i].error \in WorkflowErrors
        /\ (TurnOver(c) /\ loc[c].loaded \in {"absent", "failed"}) =>
              /\ out[c] # <<>>
              /\ out[c][Len(out[c])].type = "complete"

\* the turn of a message for a stored session whose load failed is over and
\* its complete frame was sent
C28_Witness ==
    \E c \in Conns :
        /\ TurnOver(c)
        /\ loc[c].loaded = "failed"
        /\ SessionExists(sessions_table, loc[c].session_id)
        /\ Len(turns_table) >= 2
        /\ "complete" \in FrameTypes(out[c])

Ascending(turns) ==
    \A i, j \in 1..Len(turns) : i < j => turns[i].turn_number <= turns[j].turn_number

\* the resume of c went through (the session was found and its turns were
\* read) while the client was there, and no inbound frame was handled yet
Resumed(c) ==
    /\ pc[c] = "idle"
    /\ loc[c].loaded = "history"
    /\ loc[c].inbound = "none"
    /\ lostAt[c] \notin {"resume_load", "resume_turns", "resume_history"}

\* C29: on a /chat/{session_id} connect for a session that exists in the
\* store (and a store that answers), exactly one history frame is sent; it
\* is the first outbound frame of the connection, precedes the handling of
\* any inbound frame, and lists the session's turns in ascending
\* turn_number. For a session that does not exist no history frame is sent.
C29_HistoryOnceAndFirst ==
    \A c \in Conns :
        /\ \A i \in 1..Len(out[c]) :
              out[c][i].type = "history" =>
                 /\ i = 1
                 /\ loc[c].inbound = "none"
                 /\ loc[c].endpoint = "chat_session"
                 /\ SessionExists(sessions_table, loc[c].session_id)
                 /\ out[c][i].session_id = loc[c].session_id
                 /\ Ascending(out[c][i].turns)
                 /\ Len(out[c][i].turns) = Len(RowsOf(turns_table, loc[c].session_id))
        /\ Resumed(c) => Len(out[c]) = 1 /\ out[c][1].type = "history"
        /\ loc[c].loaded = "missing" => "history" \notin FrameTypes(out[c])

\* a session whose rows are not in turn order in the table was resumed
C29_Witness ==
    \E c \in Conns :
        /\ Resumed(c)
        /\ link[c] = "up"
        /\ Len(out[c]) = 1
        /\ Len(out[c][1].turns) = 3
        /\ ~Ascending(RowsOf(turns_table, loc[c].session_id))

\* task t has called list_sessions(user_id, limit=2, offset=0) and then
\* list_sessions(user_id, limit=2, offset=2), and both have returned
TwoPages(t, user_id) ==
    LET p == db.task[t].prev
        q == db.task[t].cur
    IN  /\ p.op = "list_sessions" /\ p.user_id = user_id
        /\ p.limit = 2 /\ p.offset = 0
        /\ q.op = "list_sessions" /\ q.user_id = user_id
        /\ q.limit = 2 /\ q.offset = 2
        /\ q.pc = "done"

\* the rows of the two pages, one after the other
BothPages(t) == db.task[t].prev.result.rows \o db.task[t].cur.result.rows

\* C30: for a user with at least 4 sessions and no intervening write,
\* list_sessions(limit=2, offset=0) followed by list_sessions(limit=2,
\* offset=2) returns the first four sessions of that user's list ordered by
\* updated_at descending, with no session in both pages and none skipped,
\* and only that user's sessions.
C30_PagesPartitionTheList ==
    \A t \in Tasks, u \in ListUsers :
        (TwoPages(t, u) /\ Cardinality(SessionsOfUser(sessions_table, u)) >= 4) =>
            LET rows == BothPages(t)
                listed == {rows[i].session_id : i \in 1..Len(rows)}
            IN  /\ Len(rows) = 4
                /\ \A i, j \in 1..Len(rows) :
                      i # j => rows[i].session_id # rows[j].session_id
                /\ \A i \in 1..Len(rows) : rows[i].user_id = u
                /\ \A i, j \in 1..Len(rows) :
                      i < j => rows[i].updated_at >= rows[j].updated_at
                /\ \A sid \in SessionsOfUser(sessions_table, u) \ listed :
                      \A i \in 1..Len(rows) :
                         sessions_table[sid].updated_at <= rows[i].updated_at

\* what a handler keeps of the session, the registry and the two tables are
\* the same after the step as before it
NothingElseChanges(c) ==
    /\ loc'[c].state = loc[c].state
    /\ loc'[c].session_id = loc[c].session_id
    /\ loc'[c].user_id = loc[c].user_id
    /\ loc'[c].question = loc[c].question
    /\ active_connections' = active_connections
    /\ sessions_table' = sessions_table
    /\ turns_table' = turns_table

\* C31: a ping frame yields exactly one pong frame and changes nothing else:
\* no session state, no registry entry and no store row is created or
\* changed, and the loop goes on to the next inbound frame.
C31_PingOnlyYieldsPong ==
    [][\A c \in Conns :
          /\ (pc[c] = "idle" /\ pc'[c] = "pong") =>
                out'[c] = <<>> /\ NothingElseChanges(c)
          /\ (pc[c] = "pong" /\ pc'[c] # "pong" /\ link[c] = "up") =>
                /\ out'[c] = <<[type |-> "pong"]>>
                /\ pc'[c] = "idle"
                /\ NothingElseChanges(c)]_vars

\* a ping was answered on a connection that has completed a turn before
C31_Witness ==
    \E c \in Conns :
        /\ pc[c] = "idle"
        /\ link[c] = "up"
        /\ loc[c].inbound = "ping"
        /\ out[c] = <<[type |-> "pong"]>>
        /\ loc[c].state # EmptyDict
        /\ turns_table # <<>>
        /\ DictKeys(active_connections) # {}

\* C32: send for a session id that has no registry entry writes to no
\* channel, raises no error and leaves the registry unchanged.
C32_SendWithoutEntryDoesNothing ==
    [][(bc'.sends = bc.sends + 1 /\ bc'.send_id \notin DictKeys(active_connections)) =>
          /\ out' = out
          /\ bc'.send_result = "no_entry"
          /\ active_connections' = active_connections]_vars

\* send_json was called for an id without entry while another id had one
C32_Witness ==
    /\ bc.sends > 0
    /\ bc.send_result = "no_entry"
    /\ bc.send_id \notin DictKeys(active_connections)
    /\ DictKeys(active_connections) # {}

\* the statements of the call the warehouse has carried out; when the call
\* is the INSERT of save_turn each of them has added one row
Executed == {i \in 1..Len(stmts) : stmts[i] = "SUCCEEDED"}

\* C33: a single save_turn call adds at most one row to the turn log, for
\* every pattern of network failures during submission and polling of its
\* INSERT statement.
C33_SaveTurnAddsAtMostOneRow == Cardinality(Executed) <= 1

\* the handler of c has registered c and is still running
OpenAndRegistered(c) ==
    /\ loc[c].endpoint = "chat_session"
    /\ pc[c] \notin {"new", "ended"}

\* C34: when the connection that was first registered under a session id
\* disconnects after a second connection has been registered under the same
\* id, the registry entry of the second, still open connection is not
\* removed: unregistration on disconnect removes an entry only if it maps
\* to the disconnecting channel.
C34_DisconnectKeepsNewerEntry ==
    \A c \in Conns :
        (OpenAndRegistered(c) /\ c \notin replaced) =>
            /\ loc[c].session_id \in DictKeys(active_connections)
            /\ DictValue(active_connections, loc[c].session_id) = c

\* the turn numbers of the rows of session_id are all different
DistinctTurnNumbers(session_id) ==
    LET rows == RowsOf(turns_table, session_id)
    IN  \A i, j \in 1..Len(rows) :
           i # j => rows[i].turn_number # rows[j].turn_number

\* C35: when two connections handle messages for the same session id at
\* overlapping times, the turns they persist get distinct turn numbers.
\* (Stated for connections on /chat, whose turns are numbered 1..N when
\* they do not overlap.)
C35_OverlappingTurnsGetDistinctNumbers ==
    (\A c \in Conns : loc[c].endpoint \in {"none", "chat"}) =>
        \A sid \in SessionIds : DistinctTurnNumbers(sid)

\* turn numbers of the rows of session_id
UsedTurnNumbers(table, session_id) ==
    {table[i].turn_number :
        i \in {j \in 1..Len(table) : table[j].session_id = session_id}}

\* C36: within a turn save_turn is attempted before save_session and
\* save_session is skipped when save_turn fails; if save_turn succeeds and
\* save_session then fails, the next completed turn of that session is
\* still persisted under a turn number not yet used in that session.
\* (Stated for /chat, where the state is loaded for every message, for
\* turns whose load of the state did not fail, and of the steps of the
\* handler itself.)
C36_SaveOrderAndFreshTurnNumber ==
    [][\A c \in Conns :
          (pc'[c] # pc[c] \/ loc'[c] # loc[c]) =>
             /\ pc[c] = "save_turn" =>
                   /\ sessions_table' = sessions_table
                   /\ pc'[c] = "save_session" =>
                         /\ loc[c].answer = Ran
                         /\ \E i \in 1..Len(turns_table) :
                               /\ turns_table[i].session_id = loc[c].session_id
                               /\ turns_table[i].turn_number = loc[c].turn_number
                         /\ faults' = faults
                   /\ (faults' < faults /\ pc'[c] # "save_turn") => pc'[c] = "idle"
             /\ pc[c] = "save_session" => turns_table' = turns_table
             /\ (pc[c] = "save_turn" /\ turns_table' # turns_table
                    /\ loc[c].attempt = 0
                    /\ loc[c].endpoint = "chat"
                    /\ loc[c].loaded \in {"found", "missing"}) =>
                   loc[c].turn_number \notin
                       UsedTurnNumbers(turns_table, loc[c].session_id)]_vars

\* C37: execute makes at most 3 submission attempts per call: after a
\* transient network failure on attempt k < 3 it waits 2*2^(k-1) seconds
\* (2 s, then 4 s) and submits again, and after a network failure on the
\* 3rd attempt it raises that failure to the caller.
C37_ThreeAttemptsWithBackoff ==
    /\ ex.attempt \in 0..2
    /\ Len(stmts) <= ex.attempt + 1
    /\ ex.delays = SubSeq(<<2, 4>>, 1, ex.attempt)
    /\ ex.pc = "backoff" => ex.attempt < 2 /\ ex.caught # "none"
    /\ ex.result = "client_error" => ex.pc = "done" /\ ex.attempt = 2
    /\ (ex.pc = "done" /\ ex.caught # "none" /\ ex.attempt < 2) =>
          ex.result # "client_error"

\* the third attempt of a call has failed on the network after back-offs of
\* 2 s and 4 s, and the failure was raised
C37_Witness ==
    /\ ex.pc = "done"
    /\ ex.result = "client_error"
    /\ ex.delays = <<2, 4>>
    /\ ex.attempt = 2

\* the ways _execute_sql raises
Raised ==
    {"api_error", "execution_failed", "unexpected_state", "client_error", "other"}

\* C39: _execute_sql returns a row list only when the last observed
\* statement state is SUCCEEDED; in every other outcome (non-200 submission
\* response, poll budget exhausted while still PENDING or RUNNING, all retry
\* attempts failed) it raises, and it never falls through to the empty-list
\* return after the retry loop.
C39_RowsOnlyWhenSucceeded ==
    ex.pc = "done" =>
        /\ ex.result \in Raised \cup {"rows"}
        /\ ex.result = "rows" <=> ex.state = "SUCCEEDED"
        /\ ex.status \in ErrorStatuses =>
              ex.result \in {"api_error", "client_error", "other"}
        /\ ex.result = "api_error" => ex.status \in ErrorStatuses
        /\ ex.result # "empty_list"

\* the last attempt of a call has failed on the network while its statement
\* was being polled, and the call has raised
C39_Witness ==
    /\ ex.pc = "done"
    /\ ex.attempt = MaxRetries - 1
    /\ ex.caught = "poll"
    /\ ex.state \in {"PENDING", "RUNNING"}
    /\ ex.result = "client_error"

\* C38: execute always terminates: per submission attempt it issues at most
\* timeout // 2 poll requests, and it returns or raises even when the
\* backend reports PENDING or RUNNING forever.
C38_ExecuteTerminates ==
    /\ [](ex.poll_count <= ex.timeout \div 2)
    /\ <>(ex.pc = "done")

\* a call has used up the poll budget of an attempt on a statement the
\* warehouse never began to work on, and has raised
C38_Witness ==
    /\ ex.pc = "done"
    /\ ex.poll_count = ex.timeout \div 2
    /\ ex.poll_count >= 2
    /\ \A i \in 1..Len(stmts) : stmts[i] = "PENDING"
    /\ ex.result = "unexpected_state"

\* task t is in or after a delete_session call for a session that had a
\* row
Deleting(t) ==
    /\ db.task[t].cur.op = "delete_session"
    /\ db.task[t].cur.existed

\* no write of others to the session has overlapped the call of task t:
\* none since its first statement, and none of a late statement since the
\* call began; the call's own statements, whenever the warehouse runs
\* them, are no writes of others
NotOverlapped(t) ==
    /\ db.task[t].cur.session_id \notin db.task[t].dirty
    /\ db.task[t].cur.session_id \notin db.task[t].late

\* the session row that is gone has left no turn rows, and a failed turn
\* deletion has left the session row
NoOrphanTurns(call) ==
    /\ call.session_id \notin DOMAIN sessions_table =>
          RowsOf(turns_table, call.session_id) = <<>>
    /\ call.result = FailureAt("delete_turns") =>
          call.session_id \in DOMAIN sessions_table

\* C40: delete_session never leaves orphan turns: in every state during or
\* after a call, also when either of its two statements fails, if the
\* session row of id has been removed by the call then all turn rows of id
\* have been removed too, and a failure of the turn deletion leaves the
\* session row in place.  (Of the states after the call, those before
\* another write to id.)
C40_DeleteLeavesNoOrphanTurns ==
    \A t \in Tasks :
        (/\ Deleting(t)
         /\ db.task[t].cur.pc = "done" =>
                db.task[t].cur.session_id \notin db.task[t].since_return) =>
            NoOrphanTurns(db.task[t].cur)

\* C40, for a call that no write of others to id overlaps: in every state
\* during or after the call, also when either of its two statements fails
\* or is run by the warehouse after the call has given it up, if the session
\* row of id is gone then all turn rows of id are gone too, and a failure of
\* the turn deletion leaves the session row in place.
C40_DeleteAloneLeavesNoOrphanTurns ==
    \A t \in Tasks :
        (Deleting(t) /\ NotOverlapped(t)) => NoOrphanTurns(db.task[t].cur)

\* the DELETE on the sessions table was left with the warehouse when the
\* call raised at it, and the warehouse has run it since: the session row
\* is gone after all, and so are the turn rows
C40_Witness ==
    \E t \in Tasks :
        /\ Deleting(t)
        /\ NotOverlapped(t)
        /\ db.task[t].cur.pc = "done"
        /\ db.task[t].cur.result = FailureAt("delete_session")
        /\ db.task[t].cur.session_id \notin DOMAIN sessions_table
        /\ RowsOf(turns_table, db.task[t].cur.session_id) = <<>>

====
